---------------------------- MODULE Spec2Model ----------------------------
(***************************************************************************)
(* ControllerManager (src/js/controller-manager.ts) as a state machine.    *)
(*                                                                         *)
(* The manager's async methods run on one JavaScript event loop: a method  *)
(* runs without interruption from its entry, or from the completion of the *)
(* promise it awaits, to its next await or to its return/throw.  Each such *)
(* run-to-suspension segment is one action.  At most one manager method is *)
(* in flight (spec section 5); `op` names it and `pc` says where it is     *)
(* suspended: on a driver method (pc = the method's name), on a timed wait *)
(* (pc = "sleep..."), or nowhere (pc = "done").                            *)
(*                                                                         *)
(* The controller driver (the DS4/DS5 subclasses of BaseController) and    *)
(* the HID device are the environment: a driver method returns any result  *)
(* of its declared result type, or throws (BaseController.sendFeatureReport*)
(* rethrows transport failures).                                           *)
(*                                                                         *)
(* The translation hook `l` is taken as supplied at construction: every    *)
(* use in the source is the non-null assertion `this.l!(...)`.  The        *)
(* NV-status callback is optional, as the source's `?.` call allows.       *)
(* The progress callback and the analytics hook `la` are taken to return.  *)
(* The DOM update of setHasChangesToWrite is outside the model.            *)
(*                                                                         *)
(* BaseController's own methods (src/js/controllers/base-controller.ts:    *)
(* alloc_req, sendFeatureReport, receiveFeatureReport) are modelled apart, *)
(* in TransportSpec, against a device that resolves or rejects.            *)
(***************************************************************************)
EXTENDS Integers, Sequences, FiniteSets, TLC

VARIABLES
  currentController,     \* this.currentController: Null or a controller
  handleNvStatusUpdate,  \* TRUE iff uiDependencies.handleNvStatusUpdate was supplied
  has_changes_to_write,  \* this.has_changes_to_write: "null", "false" or "true"
  lastNvStatus,          \* the NvStatus last handed to handleNvStatusUpdate
  inputHandler,          \* TRUE iff setInputHandler registered a callback
  button_states,         \* this.button_states: the tracker's snapshot
  touchPoints,           \* this.touchPoints
  batteryStatus,         \* this.batteryStatus
  lastBatteryText,       \* this._lastBatteryText
  lastInput,             \* how the last processControllerInput call ended,
                         \* and whether a method of the manager was suspended
  inputReports,          \* the input reports the device has yet to deliver
  consumer,              \* the snapshot a consumer rebuilds by applying, in
                         \* order, the change-sets the input handler received
  layoutsUsed,           \* the controllers whose layout has decoded a report
  op,                    \* the manager method last invoked by the caller
  pc,                    \* where that method is suspended, or "done"
  i,                     \* calibrateSticks: the sample loop counter
  res,                   \* the driver result the suspended method holds
  outcome,               \* how the last invoked method ended (or "pending")
  log,                   \* what the method did since it was invoked, in order
  pre,                   \* has_changes_to_write and the last NVS status
                         \* at the moment of the invocation
  hid,                   \* the last BaseController call on the HID device:
                         \* its arguments, the calls it made of the device's
                         \* methods, how the device settled, how it ended
  sessions               \* the calibration sessions open on the current
                         \* controller's device ("sticks", "range"), where
                         \* they are followed

\* The input tracker's part of the manager
tracker == <<button_states, touchPoints, batteryStatus, lastBatteryText>>

\* The input path: the tracker, the registered callback, the calls so far
\* and the reports to come
input == <<inputHandler, tracker, lastInput, inputReports, layoutsUsed, consumer>>

vars == <<currentController, handleNvStatusUpdate, has_changes_to_write,
          lastNvStatus, input, op, pc, i, res, outcome, log, pre, hid, sessions>>

\* No BaseController call on the HID device was made yet
NoExchange == [op |-> "none", pc |-> "done"]

Null == "null"

\* Largest device error code the environment answers with (codes 0..MaxCode).
MaxCode == 6

\* Number of input reports the device delivers.
MaxReports == 1

Controllers == {"c1", "c2"}

----------------------------------------------------------------------------
(* Result types of the driver (types/controllers)                          *)

\* An optional field is a field the record may lack.
Has(r, f) == f \in DOMAIN r

\* CalibrationResult: ok, optional numeric code, optional error text.
CalibrationResult ==
  {[ok |-> TRUE]}
  \cup {[ok |-> FALSE]}
  \cup {[ok |-> FALSE, code |-> c] : c \in 0..MaxCode}
  \cup {[ok |-> FALSE, error |-> e] : e \in {"", "E_DEV"}}
  \cup {[ok |-> FALSE, code |-> c, error |-> e] : c \in 0..MaxCode, e \in {"", "E_DEV"}}

\* The answers to the stick-centre requests and to calibrateRangeBegin: ok,
\* and one failure for each way the handlers read code and error (no code
\* and no error, an empty error, code 0 with an error, a non-zero code).
StickResult ==
  { r \in CalibrationResult :
      \/ r.ok
      \/ ~Has(r, "code") /\ (Has(r, "error") => r.error = "")
      \/ Has(r, "code") /\ r.code = 0 /\ Has(r, "error") /\ r.error = "E_DEV"
      \/ Has(r, "code") /\ r.code = MaxCode /\ ~Has(r, "error") }

\* What `await driver.calibrateRangeEnd()` may yield: calibrateRangeOnClose
\* reads it with `res?.`, so a missing result is among the inputs.
Undefined == [undefined |-> TRUE]
RangeEndResult == CalibrationResult \cup {Undefined}

\* NvResult: ok, optional error text.
NvResult == {[ok |-> TRUE], [ok |-> FALSE], [ok |-> FALSE, error |-> "E_NVS"]}

\* NvStatus as the driver's queryNvStatus reports it.
NvStatus ==
  { [status |-> "locked", locked |-> TRUE],
    [status |-> "unlocked", locked |-> FALSE],
    [status |-> "error", locked |-> FALSE, error |-> "E_QUERY"] }

\* FlashResult
FlashResult ==
  { [success |-> TRUE, message |-> "flashed"],
    [success |-> FALSE, message |-> "flash failed"] }

\* No NvStatus was handed to the UI yet.
NoNvStatus == [status |-> "none"]

\* The value of a method that returns nothing.
Void == [void |-> TRUE]

Pending == [kind |-> "pending"]

----------------------------------------------------------------------------
(* Pure helpers                                                            *)

\* The injected translation hook: the text, marked as having gone through l.
l(text) == "l(" \o text \o ")"

\* JavaScript truthiness of the optional number res.code
CodeTruthy(r) == Has(r, "code") /\ r.code # 0

\* String(res.error)
StringOfError(r) == IF Has(r, "error") THEN r.error ELSE "undefined"

\* String(res.error || "")
StringOfErrorOrEmpty(r) == IF Has(r, "error") THEN r.error ELSE ""

\* const detail = res.code ? this.l!("Error ") + String(res.code) : String(res.error || "");
Detail(r) ==
  IF CodeTruthy(r) THEN l("Error ") \o ToString(r.code) ELSE StringOfErrorOrEmpty(r)

\* new Error(message)
Error(message) == [name |-> "Error", message |-> message]

\* What `this.currentController!.m()` throws when currentController is null.
TypeErrorNull == [name |-> "TypeError", message |-> "Cannot read properties of null"]

\* What a driver method throws when the feature-report exchange fails.
TransportError == [name |-> "Error", message |-> "NotAllowedError: Failed to write the feature report."]

\* Math.round of the non-negative rational num/den
MathRound(num, den) == (2 * num + den) \div (2 * den)

----------------------------------------------------------------------------
(* Input reports and layouts                                               *)

\* An input report: the bytes of its DataView, and `battery`, the
\* BatteryInfo the driver's parseBatteryStatus decodes from those bytes (the
\* drivers' decoders are taken to return).
\* data.getUint8(k) is bytes[k + 1], and throws a RangeError past the end.
InRange(data, k) == k \in 0..(Len(data.bytes) - 1)
getUint8(data, k) == data.bytes[k + 1]

\* What getUint8 throws for an offset outside the DataView
RangeError == [name |-> "RangeError", message |-> "Offset is outside the bounds of the DataView"]

\* The InputConfig of each controller (getInputConfig()).  c1 declares a
\* touchpad, c2 does not; both list a d-pad direction in their button map,
\* which _recordButtonStates skips.  Any other controller (c3, connected on
\* the input path alone) declares its touchpad at offset 0.
InputConfigOf(c) ==
  IF c = "c1"
  THEN [buttonMap |-> << [name |-> "up", byte |-> 4, mask |-> 1],
                         [name |-> "square", byte |-> 4, mask |-> 16],
                         [name |-> "l1", byte |-> 5, mask |-> 1] >>,
        dpadByte |-> 4, l2AnalogByte |-> 7, r2AnalogByte |-> 8,
        touchpadOffset |-> 9]
  ELSE IF c = "c2"
  THEN [buttonMap |-> << [name |-> "left", byte |-> 4, mask |-> 8],
                         [name |-> "cross", byte |-> 4, mask |-> 32] >>,
        dpadByte |-> 4, l2AnalogByte |-> 5, r2AnalogByte |-> 6]
  ELSE [buttonMap |-> << [name |-> "cross", byte |-> 5, mask |-> 32] >>,
        dpadByte |-> 4, l2AnalogByte |-> 5, r2AnalogByte |-> 6,
        touchpadOffset |-> 0]

\* The reports delivered: two full reports that differ in sticks, triggers,
\* d-pad, buttons, touch points and battery, and one cut short after the
\* d-pad byte.
Reports ==
  { [bytes |-> <<128, 128, 128, 128, 8, 0, 0, 0, 0, 128, 0, 0, 0, 128, 0, 0, 0>>,
     battery |-> [bat_capacity |-> 50, cable_connected |-> FALSE,
                  is_charging |-> FALSE, is_error |-> FALSE]],
    [bytes |-> <<0, 255, 128, 64, 23, 1, 200, 10, 255, 0, 52, 2, 80, 129, 0, 0, 0>>,
     battery |-> [bat_capacity |-> 100, cable_connected |-> TRUE,
                  is_charging |-> TRUE, is_error |-> FALSE]],
    [bytes |-> <<0, 0, 0, 0, 3>>,
     battery |-> [bat_capacity |-> 50, cable_connected |-> FALSE,
                  is_charging |-> FALSE, is_error |-> FALSE]] }

----------------------------------------------------------------------------
(* The input tracker                                                       *)

\* Bitwise and of two naturals
RECURSIVE BitAnd(_, _)
BitAnd(a, b) ==
  IF a = 0 \/ b = 0 THEN 0
  ELSE (a % 2) * (b % 2) + 2 * BitAnd(a \div 2, b \div 2)

\* StickValue truncating toward minus infinity in place of rounding
StickValue_Floor(v) == (200 * v - 25500) \div 256

\* Math.round(((v - 127.5) / 128) * 100) / 100, in hundredths:
\* Math.round(x) is floor(x + 0.5), and x = (200 v - 25500) / 256.
StickValue(v) == (200 * v - 25500 + 128) \div 256

InitialButtonStates ==
  [sticks |-> [left |-> [x |-> 0, y |-> 0], right |-> [x |-> 0, y |-> 0]]]

InitialBatteryStatus ==
  [bat_txt |-> "", changed |-> FALSE, bat_capacity |-> 0,
   cable_connected |-> FALSE, is_charging |-> FALSE, is_error |-> FALSE]

\* No field changed
NoChanges == [n \in {} |-> 0]

\* _sticksChanged looking at the left stick's x alone
_sticksChanged_LeftXOnly(current, newValues) ==
  current.left.x # newValues.left.x

_sticksChanged(current, newValues) ==
  \/ current.left.x # newValues.left.x
  \/ current.left.y # newValues.left.y
  \/ current.right.x # newValues.right.x
  \/ current.right.y # newValues.right.y

\* Record with the comparison left out: every field read counts as changed
Record_AlwaysChanged(acc, name, val) ==
  [acc EXCEPT !.bs = (name :> val) @@ acc.bs,
              !.changes = (name :> val) @@ acc.changes]

\* Record with the store into the snapshot left out
Record_NoStore(acc, name, val) ==
  IF name \in DOMAIN acc.bs /\ acc.bs[name] = val
  THEN acc
  ELSE [acc EXCEPT !.changes = (name :> val) @@ acc.changes]

\* if (this.button_states[name] !== val) { this.button_states[name] = val; changes[name] = val; }
\* on the accumulator acc = [bs, changes, threw]; a key never written is undefined.
Record(acc, name, val) ==
  IF name \in DOMAIN acc.bs /\ acc.bs[name] = val
  THEN acc
  ELSE [acc EXCEPT !.bs = (name :> val) @@ acc.bs,
                   !.changes = (name :> val) @@ acc.changes]

\* RecordTrigger reading the byte after the trigger's
RecordTrigger_NextByte(acc, data, name, byte) ==
  IF acc.threw THEN acc
  ELSE IF ~InRange(data, byte + 1) THEN [acc EXCEPT !.threw = TRUE]
  ELSE Record(acc, name, getUint8(data, byte + 1))

\* One analog trigger: the forEach body
RecordTrigger(acc, data, name, byte) ==
  IF acc.threw THEN acc
  ELSE IF ~InRange(data, byte) THEN [acc EXCEPT !.threw = TRUE]
  ELSE Record(acc, name, getUint8(data, byte))

\* RecordDpad taking three bits of the byte for the hat (& 0x07)
RecordDpad_ThreeBits(acc, data, dpad_byte) ==
  IF acc.threw THEN acc
  ELSE IF ~InRange(data, dpad_byte) THEN [acc EXCEPT !.threw = TRUE]
  ELSE LET hat == BitAnd(getUint8(data, dpad_byte), 7)
           up == Record(acc, "up", hat = 0 \/ hat = 1 \/ hat = 7)
           right == Record(up, "right", hat = 1 \/ hat = 2 \/ hat = 3)
           down == Record(right, "down", hat = 3 \/ hat = 4 \/ hat = 5)
       IN  Record(down, "left", hat = 5 \/ hat = 6 \/ hat = 7)

\* The d-pad: one read of the hat nibble, then the four directions in order
RecordDpad(acc, data, dpad_byte) ==
  IF acc.threw THEN acc
  ELSE IF ~InRange(data, dpad_byte) THEN [acc EXCEPT !.threw = TRUE]
  ELSE LET hat == BitAnd(getUint8(data, dpad_byte), 15)
           up == Record(acc, "up", hat = 0 \/ hat = 1 \/ hat = 7)
           right == Record(up, "right", hat = 1 \/ hat = 2 \/ hat = 3)
           down == Record(right, "down", hat = 3 \/ hat = 4 \/ hat = 5)
       IN  Record(down, "left", hat = 5 \/ hat = 6 \/ hat = 7)

dpadDirections == {"up", "right", "down", "left"}

\* for (const btn of BUTTON_MAP), from entry n on
RECURSIVE RecordButtons(_, _, _, _)
RecordButtons(acc, data, BUTTON_MAP, n) ==
  IF acc.threw \/ n > Len(BUTTON_MAP) THEN acc
  ELSE LET btn == BUTTON_MAP[n]
       IN  IF btn.name \in dpadDirections
           THEN RecordButtons(acc, data, BUTTON_MAP, n + 1)
           ELSE IF ~InRange(data, btn.byte)
                THEN [acc EXCEPT !.threw = TRUE]
                ELSE RecordButtons(
                       Record(acc, btn.name, BitAnd(getUint8(data, btn.byte), btn.mask) # 0),
                       data, BUTTON_MAP, n + 1)

\* _recordButtonStates on snapshot bs: the snapshot and the change-set it
\* leaves, and whether a read past the end of the report threw on the way.
_recordButtonStates(bs, data, BUTTON_MAP, dpad_byte, l2_analog_byte, r2_analog_byte) ==
  IF ~InRange(data, 3)
  THEN [bs |-> bs, changes |-> NoChanges, threw |-> TRUE]
  ELSE LET newSticks ==
             [left |-> [x |-> StickValue(getUint8(data, 0)), y |-> StickValue(getUint8(data, 1))],
              right |-> [x |-> StickValue(getUint8(data, 2)), y |-> StickValue(getUint8(data, 3))]]
           sticks ==
             IF _sticksChanged(bs.sticks, newSticks)
             THEN [bs |-> [bs EXCEPT !.sticks = newSticks],
                   changes |-> ("sticks" :> newSticks),
                   threw |-> FALSE]
             ELSE [bs |-> bs, changes |-> NoChanges, threw |-> FALSE]
           l2 == RecordTrigger(sticks, data, "l2_analog", l2_analog_byte)
           r2 == RecordTrigger(l2, data, "r2_analog", r2_analog_byte)
           dpad == RecordDpad(r2, data, dpad_byte)
       IN  RecordButtons(dpad, data, BUTTON_MAP, 1)

TOUCHPAD_MAX_POINTS == 2
TOUCHPAD_BYTES_PER_POINT == 4

\* TouchPoint taking the low nibble of b2 for y (& 0x0f for >> 4)
TouchPoint_LowNibbleY(data, base) ==
  LET b0 == getUint8(data, base)
      b1 == getUint8(data, base + 1)
      b2 == getUint8(data, base + 2)
      b3 == getUint8(data, base + 3)
  IN  [active |-> BitAnd(b0, 128) = 0,
       id |-> BitAnd(b0, 127),
       x |-> BitAnd(b2, 15) * 256 + b1,
       y |-> b3 * 16 + BitAnd(b2, 15)]

\* One touch point read from the 4 bytes at base
TouchPoint(data, base) ==
  LET b0 == getUint8(data, base)
      b1 == getUint8(data, base + 1)
      b2 == getUint8(data, base + 2)
      b3 == getUint8(data, base + 3)
  IN  [active |-> BitAnd(b0, 128) = 0,
       id |-> BitAnd(b0, 127),
       x |-> BitAnd(b2, 15) * 256 + b1,
       y |-> b3 * 16 + b2 \div 16]

\* _parseTouchPoints throws when a byte of a point lies past the end.
TouchPointsInRange(data, offset) ==
  InRange(data, offset + TOUCHPAD_MAX_POINTS * TOUCHPAD_BYTES_PER_POINT - 1)

_parseTouchPoints(data, offset) ==
  [n \in 1..TOUCHPAD_MAX_POINTS |->
     TouchPoint(data, offset + (n - 1) * TOUCHPAD_BYTES_PER_POINT)]

\* _batteryPercentToText with a plug after the label of a connected cable
_batteryPercentToText_WithCable(batteryInfo) ==
  IF batteryInfo.is_error
  THEN "<font color=\"red\">" \o l("error") \o "</font>"
  ELSE LET c == batteryInfo.bat_capacity
           icon_txt == IF c < 20 THEN "fa-battery-empty"
                       ELSE IF c < 40 THEN "fa-battery-quarter"
                       ELSE IF c < 60 THEN "fa-battery-half"
                       ELSE IF c < 80 THEN "fa-battery-three-quarters"
                       ELSE "fa-battery-full"
           bolt_txt == IF batteryInfo.is_charging THEN "<i class=\"fa-solid fa-bolt\"></i>" ELSE ""
           plug_txt == IF batteryInfo.cable_connected THEN " <i class=\"fa-solid fa-plug\"></i>" ELSE ""
       IN  ToString(c) \o "% <i class=\"fa-solid " \o icon_txt \o "\"></i> " \o bolt_txt \o plug_txt

_batteryPercentToText(batteryInfo) ==
  IF batteryInfo.is_error
  THEN "<font color=\"red\">" \o l("error") \o "</font>"
  ELSE LET c == batteryInfo.bat_capacity
           icon_txt == IF c < 20 THEN "fa-battery-empty"
                       ELSE IF c < 40 THEN "fa-battery-quarter"
                       ELSE IF c < 60 THEN "fa-battery-half"
                       ELSE IF c < 80 THEN "fa-battery-three-quarters"
                       ELSE "fa-battery-full"
           bolt_txt == IF batteryInfo.is_charging THEN "<i class=\"fa-solid fa-bolt\"></i>" ELSE ""
       IN  ToString(c) \o "% <i class=\"fa-solid " \o icon_txt \o "\"></i> " \o bolt_txt

\* _parseBatteryStatus: the BatteryStatus it returns; it also stores bat_txt
\* in _lastBatteryText.
_parseBatteryStatus(data) ==
  LET bat_txt == _batteryPercentToText(data.battery)
  IN  [bat_txt |-> bat_txt,
       changed |-> bat_txt # lastBatteryText,
       bat_capacity |-> data.battery.bat_capacity,
       cable_connected |-> data.battery.cable_connected,
       is_charging |-> data.battery.is_charging,
       is_error |-> data.battery.is_error]

\* `if (touchpadOffset)`: declared and not 0
TouchpadOffsetTruthy(inputConfig) ==
  "touchpadOffset" \in DOMAIN inputConfig /\ inputConfig.touchpadOffset # 0

----------------------------------------------------------------------------
(* The log of one invocation                                               *)

Req(method)        == [kind |-> "req", method |-> method]
Resp(method, r)    == [kind |-> "resp", method |-> method, result |-> r]
Threw(method, e)   == [kind |-> "threw", method |-> method, err |-> e]
SleepEv(ms)        == [kind |-> "sleep", ms |-> ms]
Progress(value)    == [kind |-> "progress", value |-> value]
La(name)           == [kind |-> "la", name |-> name]
NvUpdate(nv)       == [kind |-> "handleNvStatusUpdate", nv |-> nv]

\* The fields of the manager an invocation could change.
\* What an invocation remembers of the state it started in
AtInvocation ==
  [has_changes_to_write |-> has_changes_to_write,
   lastNvStatus |-> lastNvStatus]

ManagerState ==
  [has_changes_to_write |-> has_changes_to_write,
   currentController |-> currentController,
   lastNvStatus |-> lastNvStatus,
   inputHandler |-> inputHandler,
   button_states |-> button_states,
   touchPoints |-> touchPoints,
   batteryStatus |-> batteryStatus,
   lastBatteryText |-> lastBatteryText]

----------------------------------------------------------------------------
(* How a run-to-suspension segment ends.  Each of these fixes pc', outcome' *)
(* and log'; `o` is the method the caller invoked and `lg` the log so far.  *)

\* Raise with the catch block of calibrateSticks closing the progress bar
Raise_ProgressDone(o, e, lg) ==
  /\ pc' = "done"
  /\ outcome' = [kind |-> "threw", err |-> e]
  /\ log' = IF o = "calibrateSticks"
            THEN lg \o <<Progress(100), La("multi_calibrate_sticks_failed")>>
            ELSE lg

\* The method throws e.  Inside calibrateSticks the catch block reports the
\* failure to analytics and rethrows the same error.
Raise(o, e, lg) ==
  /\ pc' = "done"
  /\ outcome' = [kind |-> "threw", err |-> e]
  /\ log' = IF o = "calibrateSticks"
            THEN Append(lg, La("multi_calibrate_sticks_failed"))
            ELSE lg

\* The method returns v.
Return(v, lg) ==
  /\ pc' = "done"
  /\ outcome' = [kind |-> "returned", value |-> v]
  /\ log' = lg

\* await this.currentController!.<method>(): the request goes to the driver
\* and the method is suspended until the driver answers; with no controller
\* the non-null assertion fails at run time.
DriverCall(o, method, lg) ==
  IF currentController = Null
  THEN Raise(o, TypeErrorNull, lg)
  ELSE /\ pc' = method
       /\ outcome' = Pending
       /\ log' = Append(lg, Req(method))

\* await sleep(ms)
Sleep(ms, label, lg) ==
  /\ pc' = label
  /\ outcome' = Pending
  /\ log' = Append(lg, SleepEv(ms))

\* setHasChangesToWrite with the early return inverted (!== for ===)
setHasChangesToWrite_Inverted(hasChanges) ==
  IF hasChanges # has_changes_to_write THEN has_changes_to_write ELSE hasChanges

\* setHasChangesToWrite(hasChanges): the new value of has_changes_to_write
setHasChangesToWrite(hasChanges) ==
  IF hasChanges = has_changes_to_write THEN has_changes_to_write ELSE hasChanges

\* The caller invokes method o: a new log, fresh locals, and the fields as
\* they are now.
Invoke(o) ==
  /\ pc = "done"
  /\ op' = o
  /\ pre' = AtInvocation
  /\ i' = 0
  /\ res' = Void

\* The driver's answer r to the awaited method arrives.
Answer(method, r) == Append(log, Resp(method, r))

----------------------------------------------------------------------------
(* The calibration sessions of the device                                  *)

\* The value of `sessions` where the sessions are not followed
NotFollowed == {"not followed"}

\* The events the step added to the log
Logged ==
  IF Len(log') > Len(log) /\ SubSeq(log', 1, Len(log)) = log
  THEN SubSeq(log', Len(log) + 1, Len(log'))
  ELSE <<>>

\* The sessions open after the device gave the answers among `events`: a
\* begin answered ok opens a session of its kind, an end answered ok closes
\* it; any other answer leaves the sessions as they were.
RECURSIVE SessionsAfter(_, _)
SessionsAfter(open, events) ==
  IF events = <<>> THEN open
  ELSE LET e == Head(events)
           isOk == e.kind = "resp" /\ Has(e.result, "ok") /\ e.result.ok
           next ==
             IF ~isOk THEN open
             ELSE IF e.method = "calibrateSticksBegin" THEN open \cup {"sticks"}
             ELSE IF e.method = "calibrateRangeBegin" THEN open \cup {"range"}
             ELSE IF e.method = "calibrateSticksEnd" THEN open \ {"sticks"}
             ELSE IF e.method = "calibrateRangeEnd" THEN open \ {"range"}
             ELSE open
       IN  SessionsAfter(next, Tail(events))

\* The device keeps its sessions from one call to the next.  Another
\* controller, or none, is another device: its sessions are not known and
\* are followed from none.
DeviceSessions ==
  sessions' = IF sessions = NotFollowed THEN sessions
              ELSE IF currentController' # currentController THEN {}
              ELSE SessionsAfter(sessions, Logged)

----------------------------------------------------------------------------
(* The state after construction                                            *)

\* The fields as the constructor leaves them, and no method invoked yet
Constructed ==
  /\ currentController = Null
  /\ handleNvStatusUpdate \in BOOLEAN
  /\ has_changes_to_write \in {"null", "false"}
  /\ lastNvStatus = NoNvStatus
  /\ inputHandler = FALSE
  /\ button_states = InitialButtonStates
  /\ touchPoints = <<>>
  /\ batteryStatus = InitialBatteryStatus
  /\ lastBatteryText = ""
  /\ lastInput = [kind |-> "none"]
  /\ consumer = InitialButtonStates
  /\ layoutsUsed = {}
  /\ op = "none"
  /\ pc = "done"
  /\ i = 0
  /\ res = Void
  /\ outcome = [kind |-> "none"]
  /\ log = <<>>
  /\ pre = AtInvocation
  /\ hid = NoExchange

\* Up to MaxReports input reports are on their way from the device.
Init ==
  /\ Constructed
  /\ sessions = NotFollowed
  /\ inputReports \in UNION { [1..n -> Reports] : n \in 0..MaxReports }

\* The same, with the device's calibration sessions followed: none is open.
SessionInit ==
  /\ Constructed
  /\ sessions = {}
  /\ inputReports \in UNION { [1..n -> Reports] : n \in 0..MaxReports }

----------------------------------------------------------------------------
(* Operations                                                              *)

setControllerInstance(instance) ==
  /\ currentController' = instance
  /\ UNCHANGED <<hid, input, handleNvStatusUpdate, has_changes_to_write, lastNvStatus,
                 op, pc, i, res, outcome, log, pre>>
  /\ DeviceSessions

\* ---- queryNvStatus ----
queryNvStatus_enter ==
  /\ Invoke("queryNvStatus")
  /\ DriverCall("queryNvStatus", "queryNvStatus", <<>>)
  /\ UNCHANGED <<hid, input, currentController, handleNvStatusUpdate, has_changes_to_write,
                 lastNvStatus>>
  /\ DeviceSessions

\* queryNvStatus with nvsLock returning the queried status instead of res
queryNvStatus_resume_LockReturnsNv(nv) ==
  /\ pc = "queryNvStatus"
  /\ LET answered == Answer("queryNvStatus", nv)
         lg == IF handleNvStatusUpdate THEN Append(answered, NvUpdate(nv)) ELSE answered
     IN  /\ lastNvStatus' = IF handleNvStatusUpdate THEN nv ELSE lastNvStatus
         /\ CASE op = "queryNvStatus" -> Return(nv, lg)
              [] op = "nvsUnlock"     -> Return(Void, lg)
              [] op = "nvsLock"       -> Return(nv, lg)
  /\ UNCHANGED <<hid, input, currentController, handleNvStatusUpdate, has_changes_to_write,
                 op, i, res, pre>>
  /\ DeviceSessions

\* queryNvStatus after the driver answered nv; also the tail of nvsLock and
\* nvsUnlock, which await this.queryNvStatus() as their last statement.
queryNvStatus_resume(nv) ==
  /\ pc = "queryNvStatus"
  /\ LET answered == Answer("queryNvStatus", nv)
         lg == IF handleNvStatusUpdate THEN Append(answered, NvUpdate(nv)) ELSE answered
     IN  /\ lastNvStatus' = IF handleNvStatusUpdate THEN nv ELSE lastNvStatus
         /\ CASE op = "queryNvStatus" -> Return(nv, lg)
              [] op = "nvsUnlock"     -> Return(Void, lg)
              [] op = "nvsLock"       -> Return(res, lg)
  /\ UNCHANGED <<hid, input, currentController, handleNvStatusUpdate, has_changes_to_write,
                 op, i, res, pre>>
  /\ DeviceSessions

\* ---- flash ----
flash_enter ==
  /\ Invoke("flash")
  /\ DriverCall("flash", "flash", <<>>)
  /\ UNCHANGED <<hid, input, currentController, handleNvStatusUpdate, has_changes_to_write,
                 lastNvStatus>>
  /\ DeviceSessions

flash_resume(result) ==
  /\ pc = "flash"
  /\ has_changes_to_write' = setHasChangesToWrite("false")
  /\ Return(result, Answer("flash", result))
  /\ UNCHANGED <<hid, input, currentController, handleNvStatusUpdate, lastNvStatus, op, i, res, pre>>
  /\ DeviceSessions

\* ---- nvsUnlock ----

\* nvsUnlock asking for the NVS status without awaiting the unlock
nvsUnlock_enter_Pipelined ==
  /\ Invoke("nvsUnlock")
  /\ IF currentController = Null
     THEN Raise("nvsUnlock", TypeErrorNull, <<>>)
     ELSE /\ pc' = "queryNvStatus"
          /\ outcome' = Pending
          /\ log' = <<Req("nvsUnlock"), Req("queryNvStatus")>>
  /\ UNCHANGED <<hid, input, currentController, handleNvStatusUpdate, has_changes_to_write,
                 lastNvStatus>>
  /\ DeviceSessions

nvsUnlock_enter ==
  /\ Invoke("nvsUnlock")
  /\ DriverCall("nvsUnlock", "nvsUnlock", <<>>)
  /\ UNCHANGED <<hid, input, currentController, handleNvStatusUpdate, has_changes_to_write,
                 lastNvStatus>>
  /\ DeviceSessions

\* nvsUnlock returning without the refresh
nvsUnlock_resume_NoRefresh(r) ==
  /\ pc = "nvsUnlock"
  /\ Return(Void, Answer("nvsUnlock", r))
  /\ UNCHANGED <<hid, input, currentController, handleNvStatusUpdate, has_changes_to_write,
                 lastNvStatus, op, i, res, pre>>
  /\ DeviceSessions

\* The driver's result is not looked at.
nvsUnlock_resume(r) ==
  /\ pc = "nvsUnlock"
  /\ DriverCall(op, "queryNvStatus", Answer("nvsUnlock", r))
  /\ UNCHANGED <<hid, input, currentController, handleNvStatusUpdate, has_changes_to_write,
                 lastNvStatus, op, i, res, pre>>
  /\ DeviceSessions

\* ---- nvsLock ----
nvsLock_enter ==
  /\ Invoke("nvsLock")
  /\ DriverCall("nvsLock", "nvsLock", <<>>)
  /\ UNCHANGED <<hid, input, currentController, handleNvStatusUpdate, has_changes_to_write,
                 lastNvStatus>>
  /\ DeviceSessions

\* nvsLock with the check of res.ok left out, as nvsUnlock is written
nvsLock_resume_Unchecked(r) ==
  /\ pc = "nvsLock"
  /\ res' = r
  /\ DriverCall(op, "queryNvStatus", Answer("nvsLock", r))
  /\ UNCHANGED <<hid, input, currentController, handleNvStatusUpdate, has_changes_to_write,
                 lastNvStatus, op, i, pre>>
  /\ DeviceSessions

nvsLock_resume(r) ==
  /\ pc = "nvsLock"
  /\ res' = r
  /\ IF ~r.ok
     THEN Raise(op, Error(l("NVS Lock failed: ") \o StringOfError(r)), Answer("nvsLock", r))
     ELSE DriverCall(op, "queryNvStatus", Answer("nvsLock", r))
  /\ UNCHANGED <<hid, input, currentController, handleNvStatusUpdate, has_changes_to_write,
                 lastNvStatus, op, i, pre>>
  /\ DeviceSessions

\* ---- calibrateSticks: the steps it shares with the single-step methods ----

\* const sampleCount = 5;
sampleCount == 5

\* The expected codes with 4 left out
EXPECTED_CALIBRATION_ERROR_CODES_Without4 == {3, 5}

\* Expected error codes that should be treated as successful completion
EXPECTED_CALIBRATION_ERROR_CODES == {3, 4, 5}

\* throw new Error(this.l!("Stick calibration failed: ") + detail)
StickCalibrationFailed(r) == Error(l("Stick calibration failed: ") \o Detail(r))

\* SampleLoop with the loop bound off by one (i <= sampleCount)
SampleLoop_OffByOne(n, lg) ==
  IF n <= sampleCount
  THEN Sleep(100, "sleep100", lg)
  ELSE DriverCall("calibrateSticks", "calibrateSticksEnd", Append(lg, Progress(90)))

\* The head of the sample loop of calibrateSticks with loop counter n: one more
\* round (sleep, then sample), or the loop's exit: progress 90, then end.
SampleLoop(n, lg) ==
  IF n < sampleCount
  THEN Sleep(100, "sleep100", lg)
  ELSE DriverCall("calibrateSticks", "calibrateSticksEnd", Append(lg, Progress(90)))

\* sampleProgress computed from i in place of i + 1
sampleProgress_FromI(n) == MathRound(30 * sampleCount + n * 50, sampleCount)

\* Math.round(30 + ((i + 1) / sampleCount) * 50)
sampleProgress(n) == MathRound(30 * sampleCount + (n + 1) * 50, sampleCount)

calibrateSticks_enter ==
  /\ Invoke("calibrateSticks")
  /\ DriverCall("calibrateSticks", "calibrateSticksBegin",
                <<La("multi_calibrate_sticks"), Progress(20)>>)
  /\ UNCHANGED <<hid, input, currentController, handleNvStatusUpdate, has_changes_to_write,
                 lastNvStatus>>
  /\ DeviceSessions

\* await sleep(100) is over: the next sample is requested.
calibrateSticks_sleep100 ==
  /\ pc = "sleep100"
  /\ DriverCall(op, "calibrateSticksSample", log)
  /\ UNCHANGED <<hid, input, currentController, handleNvStatusUpdate, has_changes_to_write,
                 lastNvStatus, op, i, res, pre>>
  /\ DeviceSessions

\* ---- calibrateSticksBegin ----
calibrateSticksBegin_enter ==
  /\ Invoke("calibrateSticksBegin")
  /\ DriverCall("calibrateSticksBegin", "calibrateSticksBegin", <<>>)
  /\ UNCHANGED <<hid, input, currentController, handleNvStatusUpdate, has_changes_to_write,
                 lastNvStatus>>
  /\ DeviceSessions

\* calibrateSticksBegin with the check of res.ok left out
calibrateSticksBegin_resume_Unchecked(r) ==
  /\ pc = "calibrateSticksBegin"
  /\ LET lg == Answer("calibrateSticksBegin", r)
     IN  IF op = "calibrateSticks"
         THEN SampleLoop(0, Append(lg, Progress(30))) /\ i' = 0
         ELSE Return(Void, lg) /\ UNCHANGED i
  /\ UNCHANGED <<hid, input, currentController, handleNvStatusUpdate, has_changes_to_write,
                 lastNvStatus, op, res, pre>>
  /\ DeviceSessions

calibrateSticksBegin_resume(r) ==
  /\ pc = "calibrateSticksBegin"
  /\ LET lg == Answer("calibrateSticksBegin", r)
     IN  IF ~r.ok
         THEN Raise(op, StickCalibrationFailed(r), lg) /\ UNCHANGED i
         ELSE IF op = "calibrateSticks"
              THEN SampleLoop(0, Append(lg, Progress(30))) /\ i' = 0
              ELSE Return(Void, lg) /\ UNCHANGED i
  /\ UNCHANGED <<hid, input, currentController, handleNvStatusUpdate, has_changes_to_write,
                 lastNvStatus, op, res, pre>>
  /\ DeviceSessions

\* ---- calibrateSticksSample ----
calibrateSticksSample_enter ==
  /\ Invoke("calibrateSticksSample")
  /\ DriverCall("calibrateSticksSample", "calibrateSticksSample", <<>>)
  /\ UNCHANGED <<hid, input, currentController, handleNvStatusUpdate, has_changes_to_write,
                 lastNvStatus>>
  /\ DeviceSessions

\* calibrateSticksSample raising at once, without the backoff
calibrateSticksSample_resume_NoBackoff(r) ==
  /\ pc = "calibrateSticksSample"
  /\ LET lg == Answer("calibrateSticksSample", r)
     IN  IF ~r.ok
         THEN Raise(op, StickCalibrationFailed(r), lg) /\ res' = r /\ UNCHANGED i
         ELSE IF op = "calibrateSticks"
              THEN /\ SampleLoop(i + 1, Append(lg, Progress(sampleProgress(i))))
                   /\ i' = i + 1
                   /\ UNCHANGED res
              ELSE Return(Void, lg) /\ UNCHANGED <<i, res>>
  /\ UNCHANGED <<hid, input, currentController, handleNvStatusUpdate, has_changes_to_write,
                 lastNvStatus, op, pre>>
  /\ DeviceSessions

calibrateSticksSample_resume(r) ==
  /\ pc = "calibrateSticksSample"
  /\ LET lg == Answer("calibrateSticksSample", r)
     IN  IF ~r.ok
         THEN Sleep(500, "sleep500_calibrateSticksSample", lg) /\ res' = r /\ UNCHANGED i
         ELSE IF op = "calibrateSticks"
              THEN /\ SampleLoop(i + 1, Append(lg, Progress(sampleProgress(i))))
                   /\ i' = i + 1
                   /\ UNCHANGED res
              ELSE Return(Void, lg) /\ UNCHANGED <<i, res>>
  /\ UNCHANGED <<hid, input, currentController, handleNvStatusUpdate, has_changes_to_write,
                 lastNvStatus, op, pre>>
  /\ DeviceSessions

\* await sleep(500) is over: the failure is raised.
calibrateSticksSample_backoff ==
  /\ pc = "sleep500_calibrateSticksSample"
  /\ Raise(op, StickCalibrationFailed(res), log)
  /\ UNCHANGED <<hid, input, currentController, handleNvStatusUpdate, has_changes_to_write,
                 lastNvStatus, op, i, res, pre>>
  /\ DeviceSessions

\* ---- calibrateSticksEnd ----
calibrateSticksEnd_enter ==
  /\ Invoke("calibrateSticksEnd")
  /\ DriverCall("calibrateSticksEnd", "calibrateSticksEnd", <<>>)
  /\ UNCHANGED <<hid, input, currentController, handleNvStatusUpdate, has_changes_to_write,
                 lastNvStatus>>
  /\ DeviceSessions

\* calibrateSticksEnd marking the changes before it looks at the result
calibrateSticksEnd_resume_MarksFirst(r) ==
  /\ pc = "calibrateSticksEnd"
  /\ has_changes_to_write' = setHasChangesToWrite("true")
  /\ LET lg == Answer("calibrateSticksEnd", r)
     IN  IF ~r.ok
         THEN /\ Sleep(500, "sleep500_calibrateSticksEnd", lg)
              /\ res' = r
         ELSE /\ UNCHANGED res
              /\ IF op = "calibrateSticks"
                 THEN Return([success |-> TRUE, message |-> l("Stick calibration completed")],
                             Append(lg, Progress(100)))
                 ELSE Return(Void, lg)
  /\ UNCHANGED <<hid, input, currentController, handleNvStatusUpdate, lastNvStatus, op, i, pre>>
  /\ DeviceSessions

calibrateSticksEnd_resume(r) ==
  /\ pc = "calibrateSticksEnd"
  /\ LET lg == Answer("calibrateSticksEnd", r)
     IN  IF ~r.ok
         THEN /\ Sleep(500, "sleep500_calibrateSticksEnd", lg)
              /\ res' = r
              /\ UNCHANGED has_changes_to_write
         ELSE /\ has_changes_to_write' = setHasChangesToWrite("true")
              /\ UNCHANGED res
              /\ IF op = "calibrateSticks"
                 THEN Return([success |-> TRUE, message |-> l("Stick calibration completed")],
                             Append(lg, Progress(100)))
                 ELSE Return(Void, lg)
  /\ UNCHANGED <<hid, input, currentController, handleNvStatusUpdate, lastNvStatus, op, i, pre>>
  /\ DeviceSessions

calibrateSticksEnd_backoff ==
  /\ pc = "sleep500_calibrateSticksEnd"
  /\ Raise(op, StickCalibrationFailed(res), log)
  /\ UNCHANGED <<hid, input, currentController, handleNvStatusUpdate, has_changes_to_write,
                 lastNvStatus, op, i, res, pre>>
  /\ DeviceSessions

\* ---- calibrateRangeBegin ----

\* calibrateRangeBegin refusing while a stick-center session is open
calibrateRangeBegin_enter_Exclusive ==
  /\ Invoke("calibrateRangeBegin")
  /\ IF "sticks" \in sessions
     THEN Raise("calibrateRangeBegin", Error(l("Calibration in progress")), <<>>)
     ELSE DriverCall("calibrateRangeBegin", "calibrateRangeBegin", <<>>)
  /\ UNCHANGED <<hid, input, currentController, handleNvStatusUpdate, has_changes_to_write,
                 lastNvStatus>>
  /\ DeviceSessions

calibrateRangeBegin_enter ==
  /\ Invoke("calibrateRangeBegin")
  /\ DriverCall("calibrateRangeBegin", "calibrateRangeBegin", <<>>)
  /\ UNCHANGED <<hid, input, currentController, handleNvStatusUpdate, has_changes_to_write,
                 lastNvStatus>>
  /\ DeviceSessions

calibrateRangeBegin_resume(ret) ==
  /\ pc = "calibrateRangeBegin"
  /\ LET lg == Answer("calibrateRangeBegin", ret)
     IN  IF ~ret.ok
         THEN Raise(op, Error(l("Range calibration failed: ") \o Detail(ret)), lg)
         ELSE Return(Void, lg)
  /\ UNCHANGED <<hid, input, currentController, handleNvStatusUpdate, has_changes_to_write,
                 lastNvStatus, op, i, res, pre>>
  /\ DeviceSessions

\* ---- calibrateRangeOnClose ----
\* res?.ok
OptOk(r) == Has(r, "ok") /\ r.ok

\* The test for an expected code with the includes() left out
IsExpectedCode_AnyCode(r) == CodeTruthy(r)

\* res?.code && EXPECTED_CALIBRATION_ERROR_CODES.includes(res.code)
IsExpectedCode(r) == CodeTruthy(r) /\ r.code \in EXPECTED_CALIBRATION_ERROR_CODES

\* The message of a genuine range-calibration failure
RangeFailedMessage(r) ==
  IF CodeTruthy(r)
  THEN l("Range calibration failed: ") \o l("Error ") \o ToString(r.code)
  ELSE l("Range calibration failed: ") \o StringOfErrorOrEmpty(r)

calibrateRangeOnClose_enter ==
  /\ Invoke("calibrateRangeOnClose")
  /\ DriverCall("calibrateRangeOnClose", "calibrateRangeEnd", <<>>)
  /\ UNCHANGED <<hid, input, currentController, handleNvStatusUpdate, has_changes_to_write,
                 lastNvStatus>>
  /\ DeviceSessions

\* calibrateRangeOnClose marking changes for an expected code as for ok
calibrateRangeOnClose_resume_MarksExpected(r) ==
  /\ pc = "calibrateRangeEnd"
  /\ LET lg == Answer("calibrateRangeEnd", r)
     IN  IF OptOk(r)
         THEN /\ has_changes_to_write' = setHasChangesToWrite("true")
              /\ Return([success |-> TRUE, message |-> l("Range calibration completed")], lg)
              /\ UNCHANGED res
         ELSE IF IsExpectedCode(r)
              THEN /\ has_changes_to_write' = setHasChangesToWrite("true")
                   /\ Return([success |-> TRUE, message |-> l("Range calibration window closed")], lg)
                   /\ UNCHANGED res
              ELSE /\ Sleep(500, "sleep500_calibrateRangeOnClose", lg)
                   /\ res' = r
                   /\ UNCHANGED has_changes_to_write
  /\ UNCHANGED <<hid, input, currentController, handleNvStatusUpdate, lastNvStatus, op, i, pre>>
  /\ DeviceSessions

calibrateRangeOnClose_resume(r) ==
  /\ pc = "calibrateRangeEnd"
  /\ LET lg == Answer("calibrateRangeEnd", r)
     IN  IF OptOk(r)
         THEN /\ has_changes_to_write' = setHasChangesToWrite("true")
              /\ Return([success |-> TRUE, message |-> l("Range calibration completed")], lg)
              /\ UNCHANGED res
         ELSE IF IsExpectedCode(r)
              THEN /\ Return([success |-> TRUE, message |-> l("Range calibration window closed")], lg)
                   /\ UNCHANGED <<has_changes_to_write, res>>
              ELSE /\ Sleep(500, "sleep500_calibrateRangeOnClose", lg)
                   /\ res' = r
                   /\ UNCHANGED has_changes_to_write
  /\ UNCHANGED <<hid, input, currentController, handleNvStatusUpdate, lastNvStatus, op, i, pre>>
  /\ DeviceSessions

calibrateRangeOnClose_backoff ==
  /\ pc = "sleep500_calibrateRangeOnClose"
  /\ Return([success |-> FALSE, message |-> RangeFailedMessage(res)], log)
  /\ UNCHANGED <<hid, input, currentController, handleNvStatusUpdate, has_changes_to_write,
                 lastNvStatus, op, i, res, pre>>
  /\ DeviceSessions

\* ---- disconnect ----
\* BaseController.close() awaits device.close() only when the device says it
\* is opened; `opened` is what the device answers.
disconnect_enter(opened) ==
  /\ Invoke("disconnect")
  /\ IF currentController # Null /\ opened
     THEN DriverCall("disconnect", "close", <<>>) /\ UNCHANGED currentController
     ELSE Return(Void, <<>>) /\ currentController' = Null
  /\ UNCHANGED <<hid, input, handleNvStatusUpdate, has_changes_to_write, lastNvStatus>>
  /\ DeviceSessions

disconnect_resume ==
  /\ pc = "close"
  /\ currentController' = Null
  /\ Return(Void, Answer("close", Void))
  /\ UNCHANGED <<hid, input, handleNvStatusUpdate, has_changes_to_write, lastNvStatus,
                 op, i, res, pre>>
  /\ DeviceSessions

\* ---- the input path ----

\* What the handler's consumer holds after it applied a change-set: each
\* field of the change-set takes its new value, the others stay.
ApplyChanges(bs, changes) ==
  [f \in DOMAIN bs \cup DOMAIN changes |->
     IF f \in DOMAIN changes THEN changes[f] ELSE bs[f]]

setInputHandler ==
  /\ inputHandler' = TRUE
  /\ UNCHANGED <<sessions, hid, tracker, lastInput, inputReports, layoutsUsed, consumer,
                 currentController,
                 handleNvStatusUpdate,
                 has_changes_to_write, lastNvStatus, op, pc, i, res, outcome, log, pre>>

\* processControllerInput(inputData): synchronous, so one step; it may run
\* while a method of the manager is suspended.  A throw leaves what was
\* assigned before it.
processControllerInput(data) ==
  /\ IF currentController = Null
     THEN /\ lastInput' = [kind |-> "threw", err |-> TypeErrorNull]
          /\ UNCHANGED <<tracker, layoutsUsed, consumer>>
     ELSE LET inputConfig == InputConfigOf(currentController)
              rec == _recordButtonStates(button_states, data, inputConfig.buttonMap,
                                         inputConfig.dpadByte, inputConfig.l2AnalogByte,
                                         inputConfig.r2AnalogByte)
              withTouch == TouchpadOffsetTruthy(inputConfig)
          IN  /\ layoutsUsed' = layoutsUsed \cup {currentController}
              /\ button_states' = rec.bs
              /\ IF rec.threw
                 THEN /\ lastInput' = [kind |-> "threw", err |-> RangeError]
                      /\ UNCHANGED <<touchPoints, batteryStatus, lastBatteryText, consumer>>
                 ELSE IF withTouch /\ ~TouchPointsInRange(data, inputConfig.touchpadOffset)
                 THEN /\ lastInput' = [kind |-> "threw", err |-> RangeError]
                      /\ UNCHANGED <<touchPoints, batteryStatus, lastBatteryText, consumer>>
                 ELSE LET tp == IF withTouch
                                THEN _parseTouchPoints(data, inputConfig.touchpadOffset)
                                ELSE touchPoints
                          bat == _parseBatteryStatus(data)
                      IN  /\ touchPoints' = tp
                          /\ batteryStatus' = bat
                          /\ lastBatteryText' = bat.bat_txt
                          /\ consumer' = IF inputHandler
                                         THEN ApplyChanges(consumer, rec.changes)
                                         ELSE consumer
                          /\ lastInput' = [kind |-> IF inputHandler THEN "delivered" ELSE "dropped",
                                           data |-> data,
                                           awaiting |-> pc # "done",
                                           controller |-> currentController,
                                           changes |-> rec.changes,
                                           touchPoints |-> tp,
                                           batteryStatus |-> bat]
  /\ UNCHANGED <<sessions, hid, inputHandler, currentController, handleNvStatusUpdate,
                 has_changes_to_write, lastNvStatus, op, pc, i, res, outcome, log, pre>>

\* Input reports held back while a method of the manager is suspended
CanDeliver_WhenIdle == pc = "done" /\ inputReports # <<>>

\* The device has a report to deliver.  The handler is called for it between
\* any two steps of the event loop: processControllerInput takes no lock and
\* tests no flag of the method in flight.
CanDeliver == inputReports # <<>>

\* The device delivers its next input report to the manager.
oninputreport ==
  /\ CanDeliver
  /\ processControllerInput(Head(inputReports))
  /\ inputReports' = Tail(inputReports)

\* ---- the driver method awaited throws ----
DriverMethods ==
  {"queryNvStatus", "flash", "nvsUnlock", "nvsLock", "calibrateSticksBegin",
   "calibrateSticksSample", "calibrateSticksEnd", "calibrateRangeBegin",
   "calibrateRangeEnd", "close"}

\* No manager method but calibrateSticks catches: the error goes to the caller.
driverThrows ==
  /\ pc \in DriverMethods
  /\ Raise(op, TransportError, Append(log, Threw(pc, TransportError)))
  /\ UNCHANGED <<hid, input, currentController, handleNvStatusUpdate, has_changes_to_write,
                 lastNvStatus, op, i, res, pre>>
  /\ DeviceSessions

----------------------------------------------------------------------------
(* The specification                                                       *)

\* The caller invokes a method of the manager, or the device delivers an
\* input report.
Call ==
  \/ \E c \in Controllers : setControllerInstance(c)
  \/ queryNvStatus_enter
  \/ flash_enter
  \/ nvsUnlock_enter
  \/ nvsLock_enter
  \/ calibrateSticks_enter
  \/ calibrateSticksBegin_enter
  \/ calibrateSticksSample_enter
  \/ calibrateSticksEnd_enter
  \/ calibrateRangeBegin_enter
  \/ calibrateRangeOnClose_enter
  \/ \E opened \in BOOLEAN : disconnect_enter(opened)
  \/ setInputHandler
  \/ oninputreport

\* The promise the suspended method awaits settles and the method runs on.
Resume ==
  \/ \E nv \in NvStatus : queryNvStatus_resume(nv)
  \/ \E r \in FlashResult : flash_resume(r)
  \/ \E r \in NvResult : nvsUnlock_resume(r)
  \/ \E r \in NvResult : nvsLock_resume(r)
  \/ \E r \in StickResult : calibrateSticksBegin_resume(r)
  \/ \E r \in StickResult : calibrateSticksSample_resume(r)
  \/ \E r \in StickResult : calibrateSticksEnd_resume(r)
  \/ \E r \in StickResult : calibrateRangeBegin_resume(r)
  \/ \E r \in RangeEndResult : calibrateRangeOnClose_resume(r)
  \/ disconnect_resume
  \/ calibrateSticks_sleep100
  \/ calibrateSticksSample_backoff
  \/ calibrateSticksEnd_backoff
  \/ calibrateRangeOnClose_backoff
  \/ driverThrows

Next == Call \/ Resume

Spec == Init /\ [][Next]_vars

\* Every promise a suspended method awaits settles: the driver answers or
\* throws, and a timed wait ends.
LiveSpec == Spec /\ WF_vars(Resume)

\* The manager with the calibration sessions of the device followed
SessionSpec == SessionInit /\ [][Next]_vars

----------------------------------------------------------------------------
(* The input path on its own                                               *)

\* Number of input reports the device delivers to the tracker on its own.
MaxInputReports == 2

\* The first report of Reports with one more byte, from which the driver
\* decodes another battery reading: the cable alone differs, or is_error is
\* set with one capacity and charging state or another.
BatteryReports ==
  { [bytes |-> <<128, 128, 128, 128, 8, 0, 0, 0, 0, 128, 0, 0, 0, 128, 0, 0, 0, 1>>,
     battery |-> [bat_capacity |-> 50, cable_connected |-> TRUE,
                  is_charging |-> FALSE, is_error |-> FALSE]],
    [bytes |-> <<128, 128, 128, 128, 8, 0, 0, 0, 0, 128, 0, 0, 0, 128, 0, 0, 0, 2>>,
     battery |-> [bat_capacity |-> 50, cable_connected |-> FALSE,
                  is_charging |-> FALSE, is_error |-> TRUE]],
    [bytes |-> <<128, 128, 128, 128, 8, 0, 0, 0, 0, 128, 0, 0, 0, 128, 0, 0, 0, 3>>,
     battery |-> [bat_capacity |-> 10, cable_connected |-> FALSE,
                  is_charging |-> TRUE, is_error |-> TRUE]] }

\* The reports of Reports, the second full report with another value in
\* byte 8 alone (the right trigger of c1's layout, read by nothing in c2's),
\* and the reports of BatteryReports.
InputReports ==
  Reports \cup BatteryReports \cup
  { [bytes |-> <<0, 255, 128, 64, 23, 1, 200, 10, 17, 0, 52, 2, 80, 129, 0, 0, 0>>,
     battery |-> [bat_capacity |-> 100, cable_connected |-> TRUE,
                  is_charging |-> TRUE, is_error |-> FALSE]] }

\* The controllers connected on the input path: those of Controllers and
\* one whose layout declares its touchpad at offset 0.
InputControllers == Controllers \cup {"c3"}

InputInit ==
  /\ Constructed
  /\ sessions = NotFollowed
  /\ inputReports \in UNION { [1..n -> InputReports] : n \in 0..MaxInputReports }

\* A controller is set, a handler is registered, a report arrives; no other
\* method of the manager is invoked.
InputNext ==
  \/ \E c \in InputControllers : setControllerInstance(c)
  \/ setInputHandler
  \/ oninputreport

InputSpec == InputInit /\ [][InputNext]_vars

----------------------------------------------------------------------------
(* The decode of one report, over every value of a byte                    *)

\* Full reports in which the four stick bytes take every value: b, 255 - b,
\* b + 64 and 7 b (mod 256) each run through 0..255 as b does.
StickReports ==
  { [bytes |-> <<b, 255 - b, (b + 64) % 256, (7 * b) % 256,
                 8, 0, 0, 0, 0, 128, 0, 0, 0, 128, 0, 0, 0>>,
     battery |-> [bat_capacity |-> 50, cable_connected |-> FALSE,
                  is_charging |-> FALSE, is_error |-> FALSE]] : b \in 0..255 }

\* Full reports in which the d-pad byte (offset 4 in both layouts, shared
\* with buttons) takes every value.
DpadReports ==
  { [bytes |-> <<128, 128, 128, 128, d, 0, 0, 0, 0, 128, 0, 0, 0, 128, 0, 0, 0>>,
     battery |-> [bat_capacity |-> 50, cable_connected |-> FALSE,
                  is_charging |-> FALSE, is_error |-> FALSE]] : d \in 0..255 }

\* Full reports in which each byte of the two touch points in turn takes
\* every value: byte k of the first point is v and byte k of the second is
\* 255 - v, the other bytes being those of 00 34 02 50 and 81 FF F0 0F.
TouchReports ==
  { [bytes |-> <<128, 128, 128, 128, 8, 0, 0, 0, 0>>
               \o [<<0, 52, 2, 80>> EXCEPT ![k] = v]
               \o [<<129, 255, 240, 15>> EXCEPT ![k] = 255 - v],
     battery |-> [bat_capacity |-> 50, cable_connected |-> FALSE,
                  is_charging |-> FALSE, is_error |-> FALSE]] : k \in 1..4, v \in 0..255 }

DecodeReports == StickReports \cup DpadReports \cup TouchReports

\* One report is on its way.
DecodeInit ==
  /\ Constructed
  /\ sessions = NotFollowed
  /\ inputReports \in { <<r>> : r \in DecodeReports }

DecodeSpec == DecodeInit /\ [][InputNext]_vars

----------------------------------------------------------------------------
(* The feature-report transport of BaseController                          *)

\* Longest payload handed to alloc_req and sendFeatureReport.
MaxPayload == 3

\* this.device.collections[0].featureReports of each controller's device:
\* the feature reports it declares, each with its items.  (Every device is
\* taken to have a first collection with a featureReports array.)
FeatureReportsOf(c) ==
  IF c = "c1"
  THEN << [reportId |-> 5, items |-> << [reportCount |-> 2] >>],
          [reportId |-> 8, items |-> << [reportCount |-> 4], [reportCount |-> 1] >>],
          [reportId |-> 9, items |-> << >>] >>
  ELSE << [reportId |-> 5, items |-> << [reportCount |-> 0] >>],
          [reportId |-> 8, items |-> << [reportCount |-> 3] >>] >>

\* The report IDs requested; no device declares 10.
ReportIds == {5, 8, 9, 10}

\* The payloads: number arrays of bytes, up to MaxPayload long
Payloads == UNION { [1..n -> {7, 255}] : n \in 0..MaxPayload }

\* The ArrayBuffers handed to sendFeatureReport
Buffers == { << >>, <<7, 255, 0>> }

\* fr.find((e) => e.reportId === id): the first entry with that ID, or
\* Undefined
Find(fr, id) ==
  IF \E n \in 1..Len(fr) : fr[n].reportId = id
  THEN fr[CHOOSE n \in 1..Len(fr) :
            fr[n].reportId = id /\ \A m \in 1..(n - 1) : fr[m].reportId # id]
  ELSE Undefined

\* const [report] = fr.find(...)?.items || []; report?.reportCount ||
\* data.length: the reportCount of the first item of the report declared
\* with that ID if there is one and it is not 0, else the payload's length
maxLen(c, id, data) ==
  LET e == Find(FeatureReportsOf(c), id)
      items == IF e = Undefined THEN << >> ELSE e.items
  IN  IF items # << >> /\ items[1].reportCount # 0
      THEN items[1].reportCount
      ELSE Len(data)

Min(a, b) == IF a < b THEN a ELSE b

\* alloc_req copying the whole payload into a buffer that grows to hold it
alloc_req_Overrun(c, id, data) ==
  [n \in 1..(IF Len(data) > maxLen(c, id, data) THEN Len(data) ELSE maxLen(c, id, data)) |->
     IF n <= Len(data) THEN data[n] % 256 ELSE 0]

\* alloc_req(id, data): a Uint8Array of maxLen zeroes, then the first
\* min(data.length, maxLen) values of data stored from index 0 (a Uint8Array
\* stores a value modulo 256)
alloc_req(c, id, data) ==
  LET len == Min(Len(data), maxLen(c, id, data))
  IN  [n \in 1..maxLen(c, id, data) |-> IF n <= len THEN data[n] % 256 ELSE 0]

\* What the device rejects with: a DOMException, whose stack is
\* "name: message", or a value without a stack
DeviceErrors ==
  { [name |-> "NotAllowedError", message |-> "Failed to write the feature report.",
     stack |-> "NotAllowedError: Failed to write the feature report."],
    [name |-> "NetworkError", message |-> "The device was disconnected."] }

\* new Error(error.stack)
ErrorOfStack(error) ==
  [name |-> "Error",
   message |-> IF "stack" \in DOMAIN error THEN error.stack ELSE ""]

\* The DataViews the device answers receiveFeatureReport with
FeatureReportViews(id) == { <<id>>, <<id, 1, 2>> }

\* alloc_req called on its own (the drivers build their requests with it)
alloc_req_call(c, id, data) ==
  /\ hid.pc = "done"
  /\ hid' = [op |-> "alloc_req", pc |-> "done", controller |-> c, reportId |-> id,
             data |-> data, calls |-> << >>,
             outcome |-> [kind |-> "returned", value |-> alloc_req(c, id, data)]]
  /\ UNCHANGED <<currentController, handleNvStatusUpdate, has_changes_to_write,
                 lastNvStatus, input, op, pc, i, res, outcome, log, pre, sessions>>

\* sendFeatureReport(reportId, data) up to its await: an array goes through
\* alloc_req, an ArrayBuffer is passed as it is; the device's
\* sendFeatureReport is called and the method suspends.
sendFeatureReport_enter(c, id, data, isArray) ==
  /\ hid.pc = "done"
  /\ hid' = [op |-> "sendFeatureReport", pc |-> "device", controller |-> c,
             reportId |-> id, data |-> data, isArray |-> isArray,
             calls |-> << [method |-> "sendFeatureReport", reportId |-> id,
                           data |-> IF isArray THEN alloc_req(c, id, data) ELSE data] >>,
             device |-> [kind |-> "pending"],
             outcome |-> [kind |-> "pending"]]
  /\ UNCHANGED <<currentController, handleNvStatusUpdate, has_changes_to_write,
                 lastNvStatus, input, op, pc, i, res, outcome, log, pre, sessions>>

\* The device's promise resolves: sendFeatureReport returns.
sendFeatureReport_resume ==
  /\ hid.op = "sendFeatureReport"
  /\ hid.pc = "device"
  /\ hid' = [hid EXCEPT !.pc = "done",
                        !.device = [kind |-> "resolved", value |-> Undefined],
                        !.outcome = [kind |-> "returned", value |-> Undefined]]
  /\ UNCHANGED <<currentController, handleNvStatusUpdate, has_changes_to_write,
                 lastNvStatus, input, op, pc, i, res, outcome, log, pre, sessions>>

\* sendFeatureReport_catch taking the failure for done
sendFeatureReport_catch_Swallowed(error) ==
  /\ hid.op = "sendFeatureReport"
  /\ hid.pc = "device"
  /\ hid' = [hid EXCEPT !.pc = "done",
                        !.device = [kind |-> "rejected", error |-> error],
                        !.outcome = [kind |-> "returned", value |-> Undefined]]
  /\ UNCHANGED <<currentController, handleNvStatusUpdate, has_changes_to_write,
                 lastNvStatus, input, op, pc, i, res, outcome, log, pre, sessions>>

\* The device's promise rejects: catch (error) { throw new Error(error.stack) }
sendFeatureReport_catch(error) ==
  /\ hid.op = "sendFeatureReport"
  /\ hid.pc = "device"
  /\ hid' = [hid EXCEPT !.pc = "done",
                        !.device = [kind |-> "rejected", error |-> error],
                        !.outcome = [kind |-> "threw", err |-> ErrorOfStack(error)]]
  /\ UNCHANGED <<currentController, handleNvStatusUpdate, has_changes_to_write,
                 lastNvStatus, input, op, pc, i, res, outcome, log, pre, sessions>>

\* receiveFeatureReport(reportId) up to its await
receiveFeatureReport_enter(c, id) ==
  /\ hid.pc = "done"
  /\ hid' = [op |-> "receiveFeatureReport", pc |-> "device", controller |-> c,
             reportId |-> id,
             calls |-> << [method |-> "receiveFeatureReport", reportId |-> id] >>,
             device |-> [kind |-> "pending"],
             outcome |-> [kind |-> "pending"]]
  /\ UNCHANGED <<currentController, handleNvStatusUpdate, has_changes_to_write,
                 lastNvStatus, input, op, pc, i, res, outcome, log, pre, sessions>>

\* The device answers: receiveFeatureReport returns the DataView.
receiveFeatureReport_resume(view) ==
  /\ hid.op = "receiveFeatureReport"
  /\ hid.pc = "device"
  /\ hid' = [hid EXCEPT !.pc = "done",
                        !.device = [kind |-> "resolved", value |-> view],
                        !.outcome = [kind |-> "returned", value |-> view]]
  /\ UNCHANGED <<currentController, handleNvStatusUpdate, has_changes_to_write,
                 lastNvStatus, input, op, pc, i, res, outcome, log, pre, sessions>>

\* The device's promise rejects: the await throws and nothing catches.
receiveFeatureReport_throws(error) ==
  /\ hid.op = "receiveFeatureReport"
  /\ hid.pc = "device"
  /\ hid' = [hid EXCEPT !.pc = "done",
                        !.device = [kind |-> "rejected", error |-> error],
                        !.outcome = [kind |-> "threw", err |-> error]]
  /\ UNCHANGED <<currentController, handleNvStatusUpdate, has_changes_to_write,
                 lastNvStatus, input, op, pc, i, res, outcome, log, pre, sessions>>

TransportInit == Constructed /\ sessions = NotFollowed /\ inputReports = << >>

TransportNext ==
  \/ \E c \in Controllers, id \in ReportIds, data \in Payloads : alloc_req_call(c, id, data)
  \/ \E c \in Controllers, id \in ReportIds, data \in Payloads :
       sendFeatureReport_enter(c, id, data, TRUE)
  \/ \E c \in Controllers, id \in ReportIds, data \in Buffers :
       sendFeatureReport_enter(c, id, data, FALSE)
  \/ sendFeatureReport_resume
  \/ \E error \in DeviceErrors : sendFeatureReport_catch(error)
  \/ \E c \in Controllers, id \in ReportIds : receiveFeatureReport_enter(c, id)
  \/ \E view \in UNION { FeatureReportViews(id) : id \in ReportIds } :
       receiveFeatureReport_resume(view)
  \/ \E error \in DeviceErrors : receiveFeatureReport_throws(error)

TransportSpec == TransportInit /\ [][TransportNext]_vars

----------------------------------------------------------------------------
(* Reading the log                                                         *)

IsReq(e, method)  == e.kind = "req" /\ e.method = method
IsResp(e, method) == e.kind = "resp" /\ e.method = method
IsOkResp(e, method)     == IsResp(e, method) /\ e.result.ok
IsFailedResp(e, method) == IsResp(e, method) /\ ~e.result.ok
IsSleep(e, ms)    == e.kind = "sleep" /\ e.ms = ms

\* The driver methods requested, in the order of the requests
RequestsOf(lg) ==
  LET reqs == SelectSeq(lg, LAMBDA e : e.kind = "req")
  IN  [k \in 1..Len(reqs) |-> reqs[k].method]

IsPrefix(s, t) == Len(s) <= Len(t) /\ \A k \in 1..Len(s) : s[k] = t[k]

\* Positions of the log before position k that hold an ok answer to `method`
OkBefore(lg, k, method) == {j \in 1..(k - 1) : IsOkResp(lg[j], method)}

\* A step of the method in flight (setControllerInstance is not one).
RunStep == <<op, pc, outcome, log>>' # <<op, pc, outcome, log>>

InSticksRun == op = "calibrateSticks"

----------------------------------------------------------------------------
(* C1: in every run of calibrateSticks the driver requests are issued in   *)
(* the order begin, sample x5, end; a sample is requested only after begin *)
(* returned ok in this run, end only after 5 samples returned ok; and when *)
(* every awaited driver call settles the run ends, having issued at most   *)
(* 1 + 5 + 1 requests.                                                     *)

C1_SticksOrder ==
  <<"calibrateSticksBegin",
    "calibrateSticksSample", "calibrateSticksSample", "calibrateSticksSample",
    "calibrateSticksSample", "calibrateSticksSample",
    "calibrateSticksEnd">>

C1_Order ==
  InSticksRun =>
    /\ IsPrefix(RequestsOf(log), C1_SticksOrder)
    /\ \A k \in 1..Len(log) :
         /\ IsReq(log[k], "calibrateSticksSample")
              => OkBefore(log, k, "calibrateSticksBegin") # {}
         /\ IsReq(log[k], "calibrateSticksEnd")
              => Cardinality(OkBefore(log, k, "calibrateSticksSample")) = 5
    /\ pc = "done" => outcome.kind \in {"returned", "threw"}

C1_Terminates == (InSticksRun /\ pc # "done") ~> (InSticksRun /\ pc = "done")

C1_OrderAndTermination == [](C1_Order) /\ C1_Terminates

\* A run that went through all seven requests and returned.
C1_Witness ==
  /\ InSticksRun
  /\ pc = "done"
  /\ outcome.kind = "returned"
  /\ RequestsOf(log) = C1_SticksOrder

----------------------------------------------------------------------------
(* C2: stick-center begin fails closed.  When the driver's                 *)
(* calibrateSticksBegin result is not ok, calibrateSticksBegin and          *)
(* calibrateSticks raise an error, no sample or end request follows in that *)
(* run, and no step of the run, from its invocation to the raise, changes   *)
(* has_changes_to_write, the tracker snapshot (button_states, touchPoints,  *)
(* batteryStatus, last battery text), the input handler, the current        *)
(* controller or the NV status shown.                                       *)

InBeginRun == op \in {"calibrateSticks", "calibrateSticksBegin"}

BeginFailed(lg) == \E k \in 1..Len(lg) : IsFailedResp(lg[k], "calibrateSticksBegin")
BeginOk(lg)     == \E k \in 1..Len(lg) : IsOkResp(lg[k], "calibrateSticksBegin")

C2_Raises ==
  (InBeginRun /\ BeginFailed(log)) =>
    /\ pc = "done"
    /\ outcome.kind = "threw"
    /\ outcome.err.name = "Error"
    /\ \A k \in 1..Len(log) :
         /\ ~IsReq(log[k], "calibrateSticksSample")
         /\ ~IsReq(log[k], "calibrateSticksEnd")
    /\ has_changes_to_write = pre.has_changes_to_write

\* Every step of a run in which begin has not returned ok leaves the fields alone.
C2_NoStateChange ==
  (RunStep /\ InBeginRun' /\ ~BeginOk(log')) => ManagerState' = ManagerState

C2_BeginFailsClosed == [](C2_Raises) /\ [][C2_NoStateChange]_vars

\* calibrateSticks raised after a failed begin that carried a device code,
\* with changes pending and a tracker that holds a decoded report.
C2_Witness ==
  /\ op = "calibrateSticks"
  /\ pc = "done"
  /\ outcome.kind = "threw"
  /\ \E k \in 1..Len(log) :
       IsFailedResp(log[k], "calibrateSticksBegin") /\ CodeTruthy(log[k].result)
  /\ has_changes_to_write = "true"
  /\ button_states # InitialButtonStates
  /\ batteryStatus # InitialBatteryStatus

----------------------------------------------------------------------------
(* C3: when a calibrateSticksSample request returns not ok, the method     *)
(* first waits the 500 ms backoff and only then raises the failure; no     *)
(* sample and no end request follows in that run.                          *)

InSampleRun == op \in {"calibrateSticks", "calibrateSticksSample"}

C3_SampleFailure ==
  InSampleRun =>
    \A k \in 1..Len(log) :
      IsFailedResp(log[k], "calibrateSticksSample") =>
        /\ Len(log) > k
        /\ IsSleep(log[k + 1], 500)
        /\ \A j \in (k + 1)..Len(log) : log[j].kind # "req"
        /\ pc \in {"sleep500_calibrateSticksSample", "done"}
        /\ pc = "sleep500_calibrateSticksSample" => outcome = Pending
        /\ pc = "done" =>
             /\ outcome.kind = "threw"
             /\ outcome.err = Error(l("Stick calibration failed: ") \o Detail(log[k].result))

\* calibrateSticks raised after its third sample failed.
C3_Witness ==
  /\ op = "calibrateSticks"
  /\ pc = "done"
  /\ outcome.kind = "threw"
  /\ \E k \in 1..Len(log) :
       /\ IsFailedResp(log[k], "calibrateSticksSample")
       /\ Cardinality(OkBefore(log, k, "calibrateSticksSample")) = 2

----------------------------------------------------------------------------
(* C4: after calibrateSticksEnd's driver result was ok, has_changes_to_write*)
(* is true, and neither calibrateSticksEnd nor calibrateSticks issues a    *)
(* flash request.                                                          *)

InEndRun == op \in {"calibrateSticks", "calibrateSticksEnd"}

EndOk(lg) == \E k \in 1..Len(lg) : IsOkResp(lg[k], "calibrateSticksEnd")

C4_ChangesPendingNoFlash ==
  InEndRun =>
    /\ EndOk(log) => (has_changes_to_write = "true" /\ pc = "done" /\ outcome.kind = "returned")
    /\ \A k \in 1..Len(log) : ~IsReq(log[k], "flash")

\* calibrateSticks returned success where nothing was pending before.
C4_Witness ==
  /\ op = "calibrateSticks"
  /\ EndOk(log)
  /\ pre.has_changes_to_write = "false"
  /\ has_changes_to_write = "true"

----------------------------------------------------------------------------
(* C5: when the driver's calibrateSticksEnd result is not ok, the method   *)
(* waits the 500 ms backoff and then raises an error; has_changes_to_write *)
(* stays what it was and calibrateSticks reports no success (no progress   *)
(* 100, no returned value).                                                *)

C5_EndFailure ==
  InEndRun =>
    \A k \in 1..Len(log) :
      IsFailedResp(log[k], "calibrateSticksEnd") =>
        /\ Len(log) > k
        /\ IsSleep(log[k + 1], 500)
        /\ pc \in {"sleep500_calibrateSticksEnd", "done"}
        /\ pc = "sleep500_calibrateSticksEnd" => outcome = Pending
        /\ pc = "done" =>
             /\ outcome.kind = "threw"
             /\ outcome.err = Error(l("Stick calibration failed: ") \o Detail(log[k].result))
        /\ has_changes_to_write = pre.has_changes_to_write
        /\ \A j \in 1..Len(log) : log[j] # Progress(100)

\* calibrateSticks raised after a failed end, with nothing pending before or after.
C5_Witness ==
  /\ op = "calibrateSticks"
  /\ pc = "done"
  /\ outcome.kind = "threw"
  /\ has_changes_to_write = "false"
  /\ \E k \in 1..Len(log) : IsFailedResp(log[k], "calibrateSticksEnd")

----------------------------------------------------------------------------
(* C6: calibrateRangeOnClose: a calibrateRangeEnd result that is not ok    *)
(* and carries a code of {3, 4, 5} makes the call return success with the  *)
(* 'window closed' message, at once and without raising; an ok result      *)
(* returns success with the other, 'completed' message.                    *)

InRangeClose == op = "calibrateRangeOnClose"

C6_WindowClosed == [success |-> TRUE, message |-> l("Range calibration window closed")]
C6_Completed    == [success |-> TRUE, message |-> l("Range calibration completed")]

C6_ExpectedCodesAreSuccess ==
  InRangeClose =>
    \A k \in 1..Len(log) :
      IsResp(log[k], "calibrateRangeEnd") =>
        LET r == log[k].result
        IN  /\ (Has(r, "ok") /\ ~r.ok /\ Has(r, "code") /\ r.code \in {3, 4, 5}) =>
                 /\ pc = "done"
                 /\ outcome = [kind |-> "returned", value |-> C6_WindowClosed]
            /\ (Has(r, "ok") /\ r.ok) =>
                 /\ pc = "done"
                 /\ outcome = [kind |-> "returned", value |-> C6_Completed]
            /\ C6_WindowClosed.message # C6_Completed.message

\* Code 4 was answered and the call returned the 'window closed' success.
C6_Witness ==
  /\ InRangeClose
  /\ pc = "done"
  /\ outcome.kind = "returned"
  /\ outcome.value = C6_WindowClosed
  /\ \E k \in 1..Len(log) :
       IsResp(log[k], "calibrateRangeEnd") /\ log[k].result = [ok |-> FALSE, code |-> 4]

----------------------------------------------------------------------------
(* C7: calibrateRangeOnClose: every calibrateRangeEnd result that is not   *)
(* ok and whose code is not in {3, 4, 5} (no code, code 0, no result at    *)
(* all) is reported, after the backoff, as {success: false} with a message *)
(* that carries the code, or else the error text; never as success.        *)

C7_Genuine(r) ==
  /\ ~(Has(r, "ok") /\ r.ok)
  /\ ~(Has(r, "code") /\ r.code \in {3, 4, 5})

C7_Message(r) ==
  IF Has(r, "code") /\ r.code # 0
  THEN "l(Range calibration failed: )l(Error )" \o ToString(r.code)
  ELSE "l(Range calibration failed: )" \o (IF Has(r, "error") THEN r.error ELSE "")

C7_OtherCodesAreFailures ==
  InRangeClose =>
    \A k \in 1..Len(log) :
      (IsResp(log[k], "calibrateRangeEnd") /\ C7_Genuine(log[k].result)) =>
        /\ Len(log) > k
        /\ IsSleep(log[k + 1], 500)
        /\ pc \in {"sleep500_calibrateRangeOnClose", "done"}
        /\ pc = "sleep500_calibrateRangeOnClose" => outcome = Pending
        /\ pc = "done" =>
             outcome = [kind |-> "returned",
                        value |-> [success |-> FALSE, message |-> C7_Message(log[k].result)]]

\* The driver gave no result at all, and the call returned a failure.
C7_Witness ==
  /\ InRangeClose
  /\ pc = "done"
  /\ outcome.kind = "returned"
  /\ ~outcome.value.success
  /\ \E k \in 1..Len(log) :
       IsResp(log[k], "calibrateRangeEnd") /\ log[k].result = Undefined

----------------------------------------------------------------------------
(* C8: when the driver's nvsLock result is not ok, nvsLock raises at once  *)
(* (no backoff) an error whose message carries the result's error text;    *)
(* it issues no NVS status query and does not call handleNvStatusUpdate,   *)
(* so the NV status last shown is unchanged.                               *)

C8_LockFailure ==
  op = "nvsLock" =>
    \A k \in 1..Len(log) :
      IsFailedResp(log[k], "nvsLock") =>
        LET r == log[k].result
        IN  /\ log = <<Req("nvsLock"), Resp("nvsLock", r)>>
            /\ pc = "done"
            /\ outcome.kind = "threw"
            /\ outcome.err.name = "Error"
            /\ outcome.err.message =
                 "l(NVS Lock failed: )" \o (IF Has(r, "error") THEN r.error ELSE "undefined")
            /\ lastNvStatus = pre.lastNvStatus

\* A lock the device refused with an error text, after a status had been shown.
C8_Witness ==
  /\ op = "nvsLock"
  /\ pc = "done"
  /\ outcome.kind = "threw"
  /\ lastNvStatus \in NvStatus
  /\ \E k \in 1..Len(log) :
       IsFailedResp(log[k], "nvsLock") /\ Has(log[k].result, "error")

----------------------------------------------------------------------------
(* C9: when the driver's nvsLock result is ok, nvsLock re-queries the NVS  *)
(* status from the device, and the value it returns to the caller is the   *)
(* driver's lock result.                                                   *)

\* The claim as stated: the value returned is the NvStatus just queried.
C9_ReturnsQueriedStatus ==
  (op = "nvsLock" /\ pc = "done" /\ outcome.kind = "returned") =>
    \E k \in 1..Len(log) :
      IsResp(log[k], "queryNvStatus") /\ outcome.value = log[k].result

C9_RequeriesAndReturnsLockResult ==
  op = "nvsLock" =>
    \A k \in 1..Len(log) :
      IsOkResp(log[k], "nvsLock") =>
        /\ Len(log) > k
        /\ log[k + 1] = Req("queryNvStatus")
        /\ (pc = "done" /\ outcome.kind = "returned") =>
             /\ \E j \in (k + 2)..Len(log) : IsResp(log[j], "queryNvStatus")
             /\ outcome.value = log[k].result
             /\ outcome.value \notin NvStatus

\* nvsLock returned after the device accepted the lock and answered the query.
C9_Witness ==
  /\ op = "nvsLock"
  /\ pc = "done"
  /\ outcome.kind = "returned"
  /\ \E k \in 1..Len(log) : IsResp(log[k], "queryNvStatus")

----------------------------------------------------------------------------
(* C10: after every nvsLock or nvsUnlock the device accepted, exactly one  *)
(* NVS status query is issued, right after the lock/unlock answer and      *)
(* before the method ends; when that query returns a result and a          *)
(* handleNvStatusUpdate callback was supplied, the callback is called once,*)
(* with that result; no callback call carries any other status.            *)

InNvsRun == op \in {"nvsLock", "nvsUnlock"}

Accepted(lg) == \E k \in 1..Len(lg) : IsOkResp(lg[k], op)

QueryRequests(lg) == {j \in 1..Len(lg) : IsReq(lg[j], "queryNvStatus")}
NvUpdates(lg)     == {j \in 1..Len(lg) : lg[j].kind = "handleNvStatusUpdate"}

\* The claim as stated: the callback is called with the query's result.
C10_CallbackAlwaysCalled ==
  (InNvsRun /\ pc = "done" /\ Accepted(log)) =>
    /\ Cardinality(QueryRequests(log)) = 1
    /\ \E j \in 2..Len(log) :
         /\ IsResp(log[j - 1], "queryNvStatus")
         /\ log[j] = NvUpdate(log[j - 1].result)

C10_RefreshAfterLockUnlock ==
  InNvsRun =>
    /\ \A k \in 1..Len(log) :
         IsOkResp(log[k], op) =>
           /\ Len(log) > k
           /\ log[k + 1] = Req("queryNvStatus")
           /\ QueryRequests(log) = {k + 1}
           /\ (pc = "done" /\ outcome.kind = "returned") =>
                \E j \in (k + 2)..Len(log) : IsResp(log[j], "queryNvStatus")
    /\ \A j \in 1..Len(log) :
         IsResp(log[j], "queryNvStatus") =>
           IF handleNvStatusUpdate
           THEN /\ Len(log) > j
                /\ log[j + 1] = NvUpdate(log[j].result)
                /\ NvUpdates(log) = {j + 1}
                /\ lastNvStatus = log[j].result
           ELSE NvUpdates(log) = {}
    /\ \A j \in NvUpdates(log) : j > 1 /\ IsResp(log[j - 1], "queryNvStatus")

\* An accepted unlock whose query changed the status the UI was shown.
C10_Witness ==
  /\ op = "nvsUnlock"
  /\ pc = "done"
  /\ outcome.kind = "returned"
  /\ Accepted(log)
  /\ handleNvStatusUpdate
  /\ pre.lastNvStatus \in NvStatus
  /\ lastNvStatus # pre.lastNvStatus

----------------------------------------------------------------------------
(* C11: nvsUnlock has the shape of nvsLock.  When the driver's nvsUnlock   *)
(* result is not ok, nvsUnlock raises an error to the caller: a failed     *)
(* unlock never completes normally.                                        *)

UnlockFailed(lg) == \E k \in 1..Len(lg) : IsFailedResp(lg[k], "nvsUnlock")

C11_UnlockFailureRaises ==
  (op = "nvsUnlock" /\ UnlockFailed(log)) =>
    /\ outcome.kind # "returned"
    /\ pc = "done" => outcome.kind = "threw"

----------------------------------------------------------------------------
(* C12: a calibration step invoked without its required preceding state   *)
(* is reported as a ProtocolMisuse error and sends nothing to the device.  *)
(* Stated for the first method ever invoked on a manager with a controller *)
(* set: no calibrateSticksBegin can have succeeded, so a direct             *)
(* calibrateSticksSample or calibrateSticksEnd raises ProtocolMisuse and   *)
(* its log holds no request.                                               *)

C12_Misuse ==
  (/\ op = "none"
   /\ currentController # Null
   /\ op' \in {"calibrateSticksSample", "calibrateSticksEnd"})
  => /\ pc' = "done"
     /\ outcome'.kind = "threw"
     /\ outcome'.err.name = "ProtocolMisuse"
     /\ RequestsOf(log') = <<>>

C12_MisuseIsReported == [][C12_Misuse]_vars

----------------------------------------------------------------------------
(* C13: stick-center happy path.  When begin, all 5 samples and end return *)
(* ok, calibrateSticks calls the progress callback with exactly 20, 30,    *)
(* 40, 50, 60, 70, 80, 90, 100: 20 before the begin request, 30 after the  *)
(* ok begin, one value after each ok sample, 90 before the end request and *)
(* 100 after the ok end; the run then returns success.                     *)

RECURSIVE ProgressOf(_)
ProgressOf(lg) ==
  IF lg = <<>> THEN <<>>
  ELSE IF Head(lg).kind = "progress"
       THEN <<Head(lg).value>> \o ProgressOf(Tail(lg))
       ELSE ProgressOf(Tail(lg))

C13_Round(value) ==
  <<SleepEv(100), Req("calibrateSticksSample"),
    Resp("calibrateSticksSample", [ok |-> TRUE]), Progress(value)>>

C13_HappyLog ==
  <<La("multi_calibrate_sticks"), Progress(20), Req("calibrateSticksBegin"),
    Resp("calibrateSticksBegin", [ok |-> TRUE]), Progress(30)>>
  \o C13_Round(40) \o C13_Round(50) \o C13_Round(60) \o C13_Round(70) \o C13_Round(80)
  \o <<Progress(90), Req("calibrateSticksEnd"),
       Resp("calibrateSticksEnd", [ok |-> TRUE]), Progress(100)>>

C13_HappyPathProgress ==
  (InSticksRun /\ EndOk(log)) =>
    /\ log = C13_HappyLog
    /\ ProgressOf(log) = <<20, 30, 40, 50, 60, 70, 80, 90, 100>>
    /\ \A k \in 1..(Len(ProgressOf(log)) - 1) : ProgressOf(log)[k] < ProgressOf(log)[k + 1]
    /\ \A k \in 1..Len(ProgressOf(log)) : ProgressOf(log)[k] \in 0..100
    /\ pc = "done"
    /\ outcome = [kind |-> "returned",
                  value |-> [success |-> TRUE, message |-> l("Stick calibration completed")]]

\* A run whose seven requests were all answered ok and that reported 100.
C13_Witness ==
  /\ InSticksRun
  /\ EndOk(log)
  /\ Len(log) > 0
  /\ log[Len(log)] = Progress(100)

----------------------------------------------------------------------------
(* Readers of the input path                                               *)

\* The step is a processControllerInput call, of report Head(inputReports).
InputStep == inputReports' # inputReports

\* The call ended without throwing: the report was decoded.
Decoded(call) == call.kind \in {"delivered", "dropped"}

----------------------------------------------------------------------------
(* C14: tracker idempotence.  From any reachable tracker state, when a     *)
(* report R decodable under layout L is processed twice in succession with *)
(* L, the second call's change-set is empty: no sticks, trigger, d-pad or  *)
(* button field.                                                           *)

C14_SameAgain ==
  (/\ InputStep
   /\ Decoded(lastInput)
   /\ lastInput.data = Head(inputReports)
   /\ lastInput.controller = currentController)
  => /\ Decoded(lastInput')
     /\ lastInput'.changes = NoChanges

C14_Idempotence == [][C14_SameAgain]_vars

\* Under c1's layout the reports differ pairwise in a field it reads, so an
\* empty change-set there is the second of two equal reports.
C14_Witness ==
  /\ Decoded(lastInput)
  /\ lastInput.controller = "c1"
  /\ layoutsUsed = {"c1"}
  /\ inputReports = <<>>
  /\ lastInput.changes = NoChanges

----------------------------------------------------------------------------
(* C15: tracker change isolation.  When two consecutive reports under the  *)
(* same layout differ only in the right-trigger analog byte, a byte no     *)
(* stick, d-pad, button or left-trigger entry of the layout reads, the     *)
(* second call's change-set is exactly {r2_analog: new value}, with no     *)
(* sticks, d-pad or button field, and every other snapshot field keeps its *)
(* value.                                                                  *)

\* Reports a and b are equal but for the byte at offset k.
DifferOnlyAt(a, b, k) ==
  /\ Len(a.bytes) = Len(b.bytes)
  /\ a.battery = b.battery
  /\ InRange(a, k)
  /\ getUint8(a, k) # getUint8(b, k)
  /\ \A j \in 0..(Len(a.bytes) - 1) : j # k => getUint8(a, j) = getUint8(b, j)

\* The offsets the layout's sticks, d-pad, buttons and left trigger read
ReadBesidesR2(inputConfig) ==
  {0, 1, 2, 3, inputConfig.dpadByte, inputConfig.l2AnalogByte}
  \cup {inputConfig.buttonMap[n].byte : n \in 1..Len(inputConfig.buttonMap)}

C15_OnlyR2 ==
  (/\ InputStep
   /\ Decoded(lastInput)
   /\ lastInput.controller = currentController
   /\ InputConfigOf(currentController).r2AnalogByte
        \notin ReadBesidesR2(InputConfigOf(currentController))
   /\ DifferOnlyAt(lastInput.data, Head(inputReports),
                   InputConfigOf(currentController).r2AnalogByte))
  => /\ Decoded(lastInput')
     /\ lastInput'.changes =
          ("r2_analog" :> getUint8(Head(inputReports),
                                   InputConfigOf(currentController).r2AnalogByte))
     /\ DOMAIN button_states' = DOMAIN button_states
     /\ \A f \in DOMAIN button_states \ {"r2_analog"} : button_states'[f] = button_states[f]
     /\ button_states'["r2_analog"] # button_states["r2_analog"]

C15_ChangeIsolation == [][C15_OnlyR2]_vars

\* The second of two reports under c1 that differ in byte 8 alone: the right
\* trigger went from 255 to 17 and nothing else is in the change-set.
C15_Witness ==
  /\ Decoded(lastInput)
  /\ lastInput.controller = "c1"
  /\ lastInput.changes = ("r2_analog" :> 17)
  /\ button_states["l2_analog"] = 10

----------------------------------------------------------------------------
(* C16: for every decoded report and every tracked field (the sticks as a  *)
(* group, l2_analog, r2_analog, each d-pad direction, each button of the   *)
(* layout that is not a d-pad direction): the field is in the change-set   *)
(* iff its newly decoded value differs from the value the snapshot held    *)
(* before the call (a field never stored differs), a field in the          *)
(* change-set carries the new value there, the change-set has no other     *)
(* field, and after the call the snapshot holds the newly decoded value of *)
(* every tracked field.                                                    *)

\* Bit `mask` (a power of two) of byte b is set.
BitSet(b, mask) == (b \div mask) % 2 = 1

\* The buttons of the layout the d-pad decode does not cover
PlainButtons(inputConfig) ==
  { n \in 1..Len(inputConfig.buttonMap) :
      inputConfig.buttonMap[n].name \notin {"up", "right", "down", "left"} }

\* The value each tracked field has in report `data` under the layout
FieldValues(data, inputConfig) ==
  LET h == getUint8(data, inputConfig.dpadByte) % 16
      fixed ==
        [f \in {"sticks", "l2_analog", "r2_analog", "up", "right", "down", "left"} |->
           CASE f = "sticks" ->
                  [left |-> [x |-> StickValue(getUint8(data, 0)),
                             y |-> StickValue(getUint8(data, 1))],
                   right |-> [x |-> StickValue(getUint8(data, 2)),
                              y |-> StickValue(getUint8(data, 3))]]
             [] f = "l2_analog" -> getUint8(data, inputConfig.l2AnalogByte)
             [] f = "r2_analog" -> getUint8(data, inputConfig.r2AnalogByte)
             [] f = "up" -> h \in {0, 1, 7}
             [] f = "right" -> h \in {1, 2, 3}
             [] f = "down" -> h \in {3, 4, 5}
             [] f = "left" -> h \in {5, 6, 7}]
      buttons ==
        [f \in {inputConfig.buttonMap[n].name : n \in PlainButtons(inputConfig)} |->
           LET n == CHOOSE m \in PlainButtons(inputConfig) : inputConfig.buttonMap[m].name = f
           IN  BitSet(getUint8(data, inputConfig.buttonMap[n].byte),
                      inputConfig.buttonMap[n].mask)]
  IN  buttons @@ fixed

C16_Diff ==
  (InputStep /\ currentController # Null /\ Decoded(lastInput'))
  => LET new == FieldValues(Head(inputReports), InputConfigOf(currentController))
         changes == lastInput'.changes
     IN  /\ DOMAIN changes \subseteq DOMAIN new
         /\ \A f \in DOMAIN new :
              /\ f \in DOMAIN changes
                   <=> (f \notin DOMAIN button_states \/ button_states[f] # new[f])
              /\ f \in DOMAIN changes => changes[f] = new[f]
              /\ f \in DOMAIN button_states'
              /\ button_states'[f] = new[f]

C16_ChangeSetIsTheDiff == [][C16_Diff]_vars

\* A second decoded report under c1 in which some tracked fields changed
\* (the sticks, the d-pad's up) and others did not (square).
C16_Witness ==
  /\ Decoded(lastInput)
  /\ lastInput.controller = "c1"
  /\ inputReports = <<>>
  /\ "sticks" \in DOMAIN lastInput.changes
  /\ "up" \in DOMAIN lastInput.changes
  /\ "l2_analog" \in DOMAIN lastInput.changes
  /\ "l1" \in DOMAIN lastInput.changes
  /\ "right" \notin DOMAIN lastInput.changes
  /\ "right" \in DOMAIN button_states

----------------------------------------------------------------------------
(* C17: decoding is independent of call history.  Two trackers that have   *)
(* processed different report sequences under the same layout L hold,      *)
(* after both process the same report R under L, the same snapshot value   *)
(* for every field of L and publish the same touch points and the same     *)
(* battery capacity, cable, charging and error values.  Stated as: after   *)
(* any history of calls under L alone, what a decoded report R leaves is   *)
(* the value of a function of R and L, whatever came before.               *)

\* The touch points published for report `data` by a tracker that has only
\* ever used this layout
TouchPointsOf(data, inputConfig) ==
  IF TouchpadOffsetTruthy(inputConfig)
  THEN _parseTouchPoints(data, inputConfig.touchpadOffset)
  ELSE <<>>

C17_FunctionOfReport ==
  (/\ InputStep
   /\ currentController # Null
   /\ layoutsUsed \subseteq {currentController}
   /\ Decoded(lastInput'))
  => LET R == Head(inputReports)
         L == InputConfigOf(currentController)
     IN  /\ \A f \in DOMAIN FieldValues(R, L) :
              f \in DOMAIN button_states' /\ button_states'[f] = FieldValues(R, L)[f]
         /\ touchPoints' = TouchPointsOf(R, L)
         /\ lastInput'.touchPoints = TouchPointsOf(R, L)
         /\ \A b \in {batteryStatus', lastInput'.batteryStatus} :
              /\ b.bat_capacity = R.battery.bat_capacity
              /\ b.cable_connected = R.battery.cable_connected
              /\ b.is_charging = R.battery.is_charging
              /\ b.is_error = R.battery.is_error

C17_HistoryIndependent == [][C17_FunctionOfReport]_vars

\* A report decoded under c2 by a tracker that had decoded another report
\* under c2 before: part of its fields changed, part did not.
C17_Witness ==
  /\ Decoded(lastInput)
  /\ layoutsUsed = {"c2"}
  /\ inputReports = <<>>
  /\ lastInput.changes # NoChanges
  /\ "right" \notin DOMAIN lastInput.changes
  /\ lastInput.batteryStatus.changed

----------------------------------------------------------------------------
(* C18: a report buffer shorter than the largest offset the layout         *)
(* references (trigger bytes, d-pad byte, any button byte, touchpad bytes)  *)
(* makes that processControllerInput call fail with an error, and the      *)
(* tracker state after the failed call (button_states with the sticks,     *)
(* touchPoints, batteryStatus, last battery text) is exactly the state     *)
(* before the call.                                                        *)

\* The offsets the layout references
OffsetsOf(inputConfig) ==
  {0, 1, 2, 3, inputConfig.dpadByte, inputConfig.l2AnalogByte, inputConfig.r2AnalogByte}
  \cup {inputConfig.buttonMap[n].byte : n \in 1..Len(inputConfig.buttonMap)}
  \cup (IF "touchpadOffset" \in DOMAIN inputConfig
        THEN {inputConfig.touchpadOffset + k :
                k \in 0..(TOUCHPAD_MAX_POINTS * TOUCHPAD_BYTES_PER_POINT - 1)}
        ELSE {})

TooShort(data, inputConfig) == \E k \in OffsetsOf(inputConfig) : ~InRange(data, k)

C18_ShortReport ==
  (/\ InputStep
   /\ currentController # Null
   /\ TooShort(Head(inputReports), InputConfigOf(currentController)))
  => /\ lastInput'.kind = "threw"
     /\ tracker' = tracker

C18_MalformedLeavesTracker == [][C18_ShortReport]_vars

----------------------------------------------------------------------------
(* C19: stick mapping.  For every raw byte b in 0..255 at offsets 0-3 the  *)
(* decoded axis value is round(((b - 127.5) / 128) * 100) / 100, an integer *)
(* number of hundredths; it lies in [-1.00, 1.00], is non-decreasing in b, *)
(* and b = 0 gives -1.00, b = 255 gives 1.00, b = 128 gives 0.00; the      *)
(* snapshot's four stick values are in that range in every reachable       *)
(* state.  Values are in hundredths: v stands for v / 100.                 *)

\* v is ((b - 127.5) / 128) * 100 rounded to the nearest integer (half up):
\* v <= x + 1/2 < v + 1 with x = (200 b - 25500) / 256.
IsRounded(v, b) ==
  /\ 256 * v <= 200 * b - 25500 + 128
  /\ 200 * b - 25500 + 128 < 256 * (v + 1)

\* The axes of the snapshot, with the offset each is read from
Axes(bs) ==
  { <<bs.sticks.left.x, 0>>, <<bs.sticks.left.y, 1>>,
    <<bs.sticks.right.x, 2>>, <<bs.sticks.right.y, 3>> }

C19_StickMapping ==
  /\ \A a \in Axes(button_states) : a[1] \in -100..100
  /\ Decoded(lastInput) =>
       \A a \in Axes(button_states) : IsRounded(a[1], getUint8(lastInput.data, a[2]))
  /\ \A b \in 0..255 :
       /\ IsRounded(StickValue(b), b)
       /\ StickValue(b) \in -100..100
       /\ b < 255 => StickValue(b) <= StickValue(b + 1)
  /\ StickValue(0) = -100
  /\ StickValue(255) = 100
  /\ StickValue(128) = 0

\* The report with 255 at offset 0 and 0 at offset 1 was decoded: the left
\* stick reads x = 1.00, y = -1.00.
C19_Witness ==
  /\ Decoded(lastInput)
  /\ getUint8(lastInput.data, 0) = 255
  /\ getUint8(lastInput.data, 1) = 0
  /\ button_states.sticks.left = [x |-> 100, y |-> -100]

----------------------------------------------------------------------------
(* C20: d-pad decode.  For every value of the d-pad byte only its low      *)
(* nibble h matters: up is pressed iff h is 0, 1 or 7, right iff 1, 2 or   *)
(* 3, down iff 3, 4 or 5, left iff 5, 6 or 7.  Hence h = 0 gives up only,  *)
(* h = 7 gives up and left, every h in 8..15 gives no direction, at most   *)
(* two directions are pressed together and never two opposite ones.        *)

\* The directions the snapshot holds as pressed
Pressed(bs) == { dir \in {"up", "right", "down", "left"} : dir \in DOMAIN bs /\ bs[dir] }

C20_DpadDecode ==
  /\ Cardinality(Pressed(button_states)) <= 2
  /\ ~({"up", "down"} \subseteq Pressed(button_states))
  /\ ~({"left", "right"} \subseteq Pressed(button_states))
  /\ Decoded(lastInput) =>
       LET h == getUint8(lastInput.data, InputConfigOf(lastInput.controller).dpadByte) % 16
       IN  /\ {"up", "right", "down", "left"} \subseteq DOMAIN button_states
           /\ button_states["up"] = (h \in {0, 1, 7})
           /\ button_states["right"] = (h \in {1, 2, 3})
           /\ button_states["down"] = (h \in {3, 4, 5})
           /\ button_states["left"] = (h \in {5, 6, 7})
           /\ h = 0 => Pressed(button_states) = {"up"}
           /\ h = 7 => Pressed(button_states) = {"up", "left"}
           /\ h \in 8..15 => Pressed(button_states) = {}

\* A d-pad byte with hat 7 under bits of the high nibble (0xB7) was decoded
\* under c1, whose button map also lists "up": up and left are pressed.
C20_Witness ==
  /\ Decoded(lastInput)
  /\ lastInput.controller = "c1"
  /\ getUint8(lastInput.data, 4) = 183
  /\ Pressed(button_states) = {"up", "left"}

----------------------------------------------------------------------------
(* C21: touchpad decode is bit-exact.  For the 4-byte group (b0, b1, b2,   *)
(* b3) of each of the 2 touch points: active iff bit 7 of b0 is 0, id is   *)
(* b0 & 0x7F in 0..127, x is ((b2 & 0x0F) << 8) | b1 in 0..4095, y is      *)
(* (b3 << 4) | (b2 >> 4) in 0..4095; bytes 00 34 02 50 give active, id 0,  *)
(* x = 564, y = 1280; the second point is read from the 4 bytes that       *)
(* follow the first.                                                       *)

\* The point the bytes b (b[1] = b0 .. b[4] = b3) encode, in arithmetic
PointOf(b) ==
  [active |-> b[1] < 128,
   id |-> b[1] % 128,
   x |-> (b[3] % 16) * 256 + b[2],
   y |-> b[4] * 16 + b[3] \div 16]

\* The 4 bytes of report `data` from offset `base`
Group(data, base) == [k \in 1..4 |-> getUint8(data, base + k - 1)]

C21_TouchDecode ==
  /\ PointOf(<<0, 52, 2, 80>>) = [active |-> TRUE, id |-> 0, x |-> 564, y |-> 1280]
  /\ (Decoded(lastInput) /\ TouchpadOffsetTruthy(InputConfigOf(lastInput.controller))) =>
       LET offset == InputConfigOf(lastInput.controller).touchpadOffset
       IN  /\ lastInput.touchPoints = touchPoints
           /\ Len(touchPoints) = 2
           /\ touchPoints[1] = PointOf(Group(lastInput.data, offset))
           /\ touchPoints[2] = PointOf(Group(lastInput.data, offset + 4))
           /\ \A n \in 1..2 :
                /\ touchPoints[n].id \in 0..127
                /\ touchPoints[n].x \in 0..4095
                /\ touchPoints[n].y \in 0..4095

\* The report whose first point is 00 34 02 50 and whose second point has
\* bit 7 of b0 set was decoded under c1.
C21_Witness ==
  /\ Decoded(lastInput)
  /\ lastInput.controller = "c1"
  /\ Group(lastInput.data, 9) = <<0, 52, 2, 80>>
  /\ touchPoints[1] = [active |-> TRUE, id |-> 0, x |-> 564, y |-> 1280]
  /\ ~touchPoints[2].active
  /\ touchPoints[2].x = 255

----------------------------------------------------------------------------
(* C22: on every processControllerInput call the published battery reading *)
(* is the one decoded from the current report and, whenever the layout in  *)
(* use declares a touchpad offset (whatever its value), the published      *)
(* touch points are exactly the 2 points decoded from the current report;  *)
(* neither is a value carried over from an earlier report or from a        *)
(* previously connected controller (a layout without a touchpad publishes  *)
(* no points).                                                             *)

DeclaresTouchpad(inputConfig) == "touchpadOffset" \in DOMAIN inputConfig

C22_PublishedFromCurrentReport ==
  Decoded(lastInput) =>
    LET R == lastInput.data
        L == InputConfigOf(lastInput.controller)
        b == lastInput.batteryStatus
    IN  /\ b.bat_capacity = R.battery.bat_capacity
        /\ b.cable_connected = R.battery.cable_connected
        /\ b.is_charging = R.battery.is_charging
        /\ b.is_error = R.battery.is_error
        /\ b.bat_txt = _batteryPercentToText(R.battery)
        /\ IF DeclaresTouchpad(L)
           THEN lastInput.touchPoints =
                  << PointOf(Group(R, L.touchpadOffset)),
                     PointOf(Group(R, L.touchpadOffset + TOUCHPAD_BYTES_PER_POINT)) >>
           ELSE lastInput.touchPoints = <<>>

----------------------------------------------------------------------------
(* C23: the battery `changed` flag.  On each processed report, changed is  *)
(* true iff the label rendered for this report differs from the label      *)
(* rendered for the previous processed report (initially the empty label,  *)
(* so the first report has changed = true); a change of cable_connected,   *)
(* or of capacity or charging while is_error is set, gives changed =       *)
(* false, and so does the same reading twice in a row.                     *)

\* Whether two readings are rendered alike: both in error, or neither and
\* with the same capacity and charging state
SameLabel(p, r) ==
  \/ p.is_error /\ r.is_error
  \/ /\ ~p.is_error
     /\ ~r.is_error
     /\ p.bat_capacity = r.bat_capacity
     /\ p.is_charging = r.is_charging

C23_Step ==
  /\ ~InputStep => lastBatteryText' = lastBatteryText
  /\ (InputStep /\ ~Decoded(lastInput')) =>
       /\ lastBatteryText' = lastBatteryText
       /\ batteryStatus' = batteryStatus
  /\ (InputStep /\ Decoded(lastInput')) =>
       LET R == Head(inputReports).battery
       IN  /\ lastInput'.batteryStatus = batteryStatus'
           /\ lastBatteryText' = batteryStatus'.bat_txt
           /\ batteryStatus'.bat_txt # ""
           /\ batteryStatus'.changed = (batteryStatus'.bat_txt # lastBatteryText)
           /\ lastBatteryText = "" => batteryStatus'.changed
           /\ Decoded(lastInput) =>
                /\ lastBatteryText = batteryStatus.bat_txt
                /\ batteryStatus'.changed = ~SameLabel(lastInput.data.battery, R)

C23_BatteryChanged == lastBatteryText = "" /\ [][C23_Step]_vars

\* A second report in error, with another capacity than the first, was
\* processed and did not change the label.
C23_Witness ==
  /\ Decoded(lastInput)
  /\ inputReports = <<>>
  /\ Len(lastInput.data.bytes) = 18
  /\ lastInput.data.battery.is_error
  /\ lastInput.data.battery.bat_capacity = 10
  /\ ~batteryStatus.changed

----------------------------------------------------------------------------
(* C24: alloc_req(id, data): for every report ID and every payload, the    *)
(* request buffer's length equals the device-declared report length for    *)
(* that ID, its first min(len(data), declared length) bytes are the        *)
(* payload's leading bytes and every remaining byte is 0.                  *)
(* As the code has it: that holds of an ID the device declares with a      *)
(* first item whose reportCount is not 0; for any other ID (not declared,  *)
(* declared without items, or with reportCount 0) the buffer is the        *)
(* payload itself, of the payload's length.                                *)

\* The device of c declares report ID id, with a length
Declares(c, id) ==
  /\ Find(FeatureReportsOf(c), id) # Undefined
  /\ Find(FeatureReportsOf(c), id).items # << >>

\* The length it declares for it
DeclaredLength(c, id) == Find(FeatureReportsOf(c), id).items[1].reportCount

\* out is data left-justified in n bytes: cut to n, the rest 0
LeftJustified(out, data, n) ==
  /\ Len(out) = n
  /\ \A k \in 1..n : out[k] = IF k <= Len(data) THEN data[k] ELSE 0

\* The buffers alloc_req built in the last call: the one it returned, or the
\* one sendFeatureReport made of an array and passed to the device
Allocated ==
  IF hid.op = "alloc_req" THEN {hid.outcome.value}
  ELSE IF hid.op = "sendFeatureReport" /\ hid.isArray THEN {hid.calls[1].data}
  ELSE {}

\* The claim as stated: violated
C24_DeclaredLengthAlways ==
  \A out \in Allocated :
    /\ Declares(hid.controller, hid.reportId)
    /\ LeftJustified(out, hid.data, DeclaredLength(hid.controller, hid.reportId))

C24_BufferLayout ==
  \A out \in Allocated :
    IF Declares(hid.controller, hid.reportId)
       /\ DeclaredLength(hid.controller, hid.reportId) # 0
    THEN LeftJustified(out, hid.data, DeclaredLength(hid.controller, hid.reportId))
    ELSE out = hid.data

\* A payload of 3 bytes was cut to the 2 bytes c1 declares for report 5,
\* and one of 1 byte was handed to the device in 4 bytes for report 8.
C24_Witness ==
  \/ /\ hid.op = "alloc_req"
     /\ hid.controller = "c1"
     /\ hid.reportId = 5
     /\ hid.data = <<255, 7, 255>>
     /\ hid.outcome.value = <<255, 7>>
  \/ /\ hid.op = "sendFeatureReport"
     /\ hid.data = <<7>>
     /\ hid.calls[1].data = <<7, 0, 0, 0>>

----------------------------------------------------------------------------
(* C25: a transport failure of a feature-report exchange is neither        *)
(* swallowed nor retried by the driver: each sendFeatureReport or          *)
(* receiveFeatureReport call of BaseController invokes the device's method *)
(* of that name exactly once, and if that invocation fails the call raises *)
(* an error to its caller.                                                 *)

IsExchange(h) == h.op \in {"sendFeatureReport", "receiveFeatureReport"}

C25_OnceAndRaised ==
  IsExchange(hid) =>
    /\ Len(hid.calls) = 1
    /\ hid.calls[1].method = hid.op
    /\ hid.calls[1].reportId = hid.reportId
    /\ hid.pc = "done" <=> hid.device.kind # "pending"
    /\ hid.pc = "done" <=> hid.outcome.kind # "pending"
    /\ hid.device.kind = "rejected" =>
         /\ hid.outcome.kind = "threw"
         /\ hid.outcome.err.name \in {"Error", hid.device.error.name}
    /\ hid.device.kind = "resolved" =>
         /\ hid.outcome.kind = "returned"
         /\ hid.outcome.value = hid.device.value

\* The device rejected a sendFeatureReport, and the call threw the Error made
\* of the rejection's stack.
C25_Witness ==
  /\ hid.op = "sendFeatureReport"
  /\ hid.device.kind = "rejected"
  /\ hid.outcome = [kind |-> "threw",
                    err |-> [name |-> "Error",
                             message |-> "NotAllowedError: Failed to write the feature report."]]
  /\ Len(hid.calls) = 1

----------------------------------------------------------------------------
(* C26: within one operation of the manager (calibrateSticks, nvsLock,     *)
(* nvsUnlock, calibrateRangeOnClose, and the others alike) requests are    *)
(* issued serially: at every point at most one driver request of the       *)
(* operation is outstanding, and the next request is issued only after the *)
(* response to the previous one was received.                              *)

IsAnswer(e) == e.kind \in {"resp", "threw"}

\* The requests of the log that no response or throw has answered yet
Outstanding(lg) ==
  { k \in 1..Len(lg) :
      /\ lg[k].kind = "req"
      /\ ~\E m \in (k + 1)..Len(lg) : IsAnswer(lg[m]) /\ lg[m].method = lg[k].method }

C26_Serial ==
  /\ Cardinality(Outstanding(log)) <= 1
  /\ \A k \in 1..Len(log) :
       /\ log[k].kind = "req" =>
            IF k = Len(log)
            THEN pc = log[k].method /\ outcome = Pending
            ELSE IsAnswer(log[k + 1]) /\ log[k + 1].method = log[k].method
       /\ IsAnswer(log[k]) => k > 1 /\ IsReq(log[k - 1], log[k].method)
  /\ pc \in DriverMethods => Outstanding(log) = {Len(log)}

\* calibrateSticks awaits its third sample, the begin and the two samples
\* before it answered.
C26_Witness ==
  /\ op = "calibrateSticks"
  /\ pc = "calibrateSticksSample"
  /\ RequestsOf(log) = <<"calibrateSticksBegin", "calibrateSticksSample",
                         "calibrateSticksSample", "calibrateSticksSample">>
  /\ Outstanding(log) = {Len(log)}

----------------------------------------------------------------------------
(* C27: input processing and the calibration, NVS and flash operations do  *)
(* not block or interfere with each other.  While an operation awaits a    *)
(* device response or a timed wait, processControllerInput can run for     *)
(* every delivered report; the change-set it produces is the one the       *)
(* snapshot, the layout and the report give, whether or not an operation   *)
(* is in flight; it leaves has_changes_to_write and the operation in       *)
(* flight as they are; and the operations leave button_states, touchPoints *)
(* and batteryStatus unchanged.                                            *)

\* What _recordButtonStates gives for report `data` from the snapshot, under
\* the layout of controller c
RecordedUnder(c, data) ==
  _recordButtonStates(button_states, data, InputConfigOf(c).buttonMap,
                      InputConfigOf(c).dpadByte, InputConfigOf(c).l2AnalogByte,
                      InputConfigOf(c).r2AnalogByte)

C27_Step ==
  /\ inputReports # <<>> => CanDeliver
  /\ InputStep =>
       /\ UNCHANGED <<currentController, handleNvStatusUpdate, has_changes_to_write,
                      lastNvStatus, op, pc, i, res, outcome, log, pre, inputHandler, hid>>
       /\ lastInput'.kind # "none"
       /\ currentController # Null =>
            /\ button_states' = RecordedUnder(currentController, Head(inputReports)).bs
            /\ Decoded(lastInput') =>
                 /\ lastInput'.changes =
                      RecordedUnder(currentController, Head(inputReports)).changes
                 /\ lastInput'.awaiting = (pc # "done")
  /\ ~InputStep => UNCHANGED <<tracker, lastInput>>

C27_NoInterference == [][C27_Step]_vars

\* A report was decoded while calibrateSticks was suspended, and the run
\* went on to its end.
C27_Witness ==
  /\ Decoded(lastInput)
  /\ lastInput.awaiting
  /\ DOMAIN lastInput.changes # {}
  /\ op = "calibrateSticks"
  /\ pc = "done"
  /\ outcome.kind = "returned"
  /\ has_changes_to_write = "true"

----------------------------------------------------------------------------
(* C28: the manager enforces no mutual exclusion between the calibration   *)
(* kinds.  calibrateRangeBegin is accepted and sent to the device while a  *)
(* stick-center session is open (begun, not ended), and calibrateSticks    *)
(* and calibrateSticksBegin while a range session is open, so that a state *)
(* with both sessions open on the same device is reachable.                *)

\* The caller invokes a method of the manager in this step.
Invoked(o) == pc = "done" /\ RunStep /\ op' = o

C28_Accepted ==
  currentController # Null =>
    /\ Invoked("calibrateRangeBegin") =>
         /\ pc' = "calibrateRangeBegin"
         /\ log' = <<Req("calibrateRangeBegin")>>
         /\ sessions' = sessions
    /\ Invoked("calibrateSticksBegin") =>
         /\ pc' = "calibrateSticksBegin"
         /\ log' = <<Req("calibrateSticksBegin")>>
         /\ sessions' = sessions
    /\ Invoked("calibrateSticks") =>
         /\ pc' = "calibrateSticksBegin"
         /\ RequestsOf(log') = <<"calibrateSticksBegin">>
         /\ sessions' = sessions
    /\ (/\ pc \in {"calibrateRangeBegin", "calibrateSticksBegin"}
        /\ currentController' = currentController
        /\ Logged # <<>>
        /\ IsOkResp(Logged[1], pc))
       => sessions' = sessions \cup {IF pc = "calibrateRangeBegin" THEN "range" ELSE "sticks"}

C28_NoMutualExclusion == [][C28_Accepted]_vars

\* The device answered ok to calibrateRangeBegin while its stick-center
\* session was open: both sessions are open.
C28_Witness ==
  /\ currentController # Null
  /\ sessions = {"sticks", "range"}
  /\ op = "calibrateRangeBegin"
  /\ pc = "done"
  /\ outcome.kind = "returned"

----------------------------------------------------------------------------
(* C29: in every run of calibrateSticks, the runs that fail at begin, at a *)
(* sample or at end included, the progress values delivered to the         *)
(* callback are within 0..100 and form a strictly increasing prefix of 20, *)
(* 30, 40, 50, 60, 70, 80, 90, 100; the value 100 is delivered iff the run *)
(* returns success, and no progress value is delivered after the failing   *)
(* request.                                                                *)

C29_Scale == <<20, 30, 40, 50, 60, 70, 80, 90, 100>>

\* The request at position k of the log failed: answered not ok, or thrown
FailedAt(lg, k) ==
  \/ lg[k].kind = "threw"
  \/ lg[k].kind = "resp" /\ ~lg[k].result.ok

C29_ProgressPrefix ==
  InSticksRun =>
    LET P == ProgressOf(log)
    IN  /\ Len(P) >= 1
        /\ IsPrefix(P, C29_Scale)
        /\ \A k \in 1..Len(P) : P[k] \in 0..100
        /\ \A k \in 1..(Len(P) - 1) : P[k] < P[k + 1]
        /\ (\E k \in 1..Len(P) : P[k] = 100)
             <=> (outcome.kind = "returned" /\ outcome.value.success)
        /\ outcome.kind = "threw" => P # C29_Scale
        /\ \A k \in 1..Len(log) :
             FailedAt(log, k) => \A m \in (k + 1)..Len(log) : log[m].kind # "progress"

\* A run that failed at its second sample: 20, 30 and 40 were delivered,
\* and nothing after the failed answer.
C29_Witness ==
  /\ InSticksRun
  /\ pc = "done"
  /\ outcome.kind = "threw"
  /\ ProgressOf(log) = <<20, 30, 40>>
  /\ \E k \in 1..Len(log) : IsFailedResp(log[k], "calibrateSticksSample")

----------------------------------------------------------------------------
(* C30: has_changes_to_write turns true only as the direct result of an ok *)
(* end result (calibrateSticksEnd ok, or calibrateRangeEnd ok in           *)
(* calibrateRangeOnClose): no begin, no sample, no failed end, no range    *)
(* end remapped from an expected code {3, 4, 5}, no NVS lock or unlock and *)
(* no input report sets it to true.                                        *)

TurnsTrue == has_changes_to_write # "true" /\ has_changes_to_write' = "true"

\* The step received the driver's ok answer to an end request.
OkEndReceived ==
  /\ Logged # <<>>
  /\ \/ pc = "calibrateSticksEnd" /\ IsOkResp(Logged[1], "calibrateSticksEnd")
     \/ /\ pc = "calibrateRangeEnd"
        /\ op = "calibrateRangeOnClose"
        /\ IsResp(Logged[1], "calibrateRangeEnd")
        /\ Has(Logged[1].result, "ok")
        /\ Logged[1].result.ok

C30_Step ==
  /\ TurnsTrue => OkEndReceived
  /\ ~OkEndReceived => has_changes_to_write' \in {has_changes_to_write, "false"}
  /\ (pc = "calibrateRangeEnd" /\ Logged # <<>> /\ IsResp(Logged[1], "calibrateRangeEnd")
      /\ Has(Logged[1].result, "code") /\ Logged[1].result.code \in {3, 4, 5}
      /\ ~OkEndReceived)
       => /\ has_changes_to_write' = has_changes_to_write
          /\ outcome'.kind = "returned"
          /\ outcome'.value.success
  /\ InputStep => has_changes_to_write' = has_changes_to_write

C30_OnlyOkEndMarksChanges == [][C30_Step]_vars

\* calibrateRangeOnClose ended "window closed" on an expected code with no
\* change to write recorded.
C30_Witness ==
  /\ op = "calibrateRangeOnClose"
  /\ pc = "done"
  /\ outcome = [kind |-> "returned",
                value |-> [success |-> TRUE, message |-> l("Range calibration window closed")]]
  /\ has_changes_to_write = "false"
  /\ pre.has_changes_to_write = "false"

----------------------------------------------------------------------------
(* C31: pending changes are never lost by a failed save.  flash sets       *)
(* has_changes_to_write to false only when the driver's flash result       *)
(* reports success; after a flash whose result has success = false, or     *)
(* whose driver call raised, a has_changes_to_write that was true is still *)
(* true.                                                                   *)

\* The step ends a flash: the driver answered, or its call raised.
FlashEnds == op = "flash" /\ pc = "flash" /\ pc' = "done"

C31_Step ==
  FlashEnds =>
    /\ (has_changes_to_write = "true" /\ has_changes_to_write' # "true") =>
         /\ outcome'.kind = "returned"
         /\ outcome'.value.success
    /\ (has_changes_to_write = "true"
        /\ (outcome'.kind = "threw" \/ ~outcome'.value.success)) =>
         has_changes_to_write' = "true"

C31_FailedSaveKeepsChanges == [][C31_Step]_vars

----------------------------------------------------------------------------
(* C32: no tracked change is lost to the consumer.  After any sequence of  *)
(* processControllerInput calls, applying in order all the change-sets     *)
(* delivered to the registered input handler onto the tracker's initial    *)
(* state reproduces the tracker's button_states snapshot: every update     *)
(* written to the snapshot was delivered in exactly one change-set, the    *)
(* reports processed before a handler was registered and the calls that    *)
(* failed part-way included.                                               *)

C32_NoChangeLost == consumer = button_states

----------------------------------------------------------------------------
(* disconnect() called while another method is suspended                   *)
(*                                                                         *)
(* Nothing in the manager keeps a caller from invoking disconnect() while  *)
(* a calibration run awaits the driver or a timer.  The events of such a   *)
(* disconnect are written to the log of the suspended method.  A close     *)
(* still awaited when the caller invokes the next method is followed no    *)
(* further.                                                                *)

\* disconnect() has completed: currentController is null from here on.
Disconnected == [kind |-> "disconnected"]

HasDisconnected(lg) == \E k \in 1..Len(lg) : lg[k] = Disconnected

\* device.close() was requested by a disconnect() and has not resolved yet
CloseAwaited(lg) ==
  \E k \in 1..Len(lg) :
    /\ IsReq(lg[k], "close")
    /\ \A m \in (k + 1)..Len(lg) : ~IsResp(lg[m], "close")

\* disconnect() up to its await, the method in flight staying suspended.
\* With no controller, or a device that is not opened, nothing is awaited
\* for longer than a microtask and the method completes before any other
\* promise settles.
disconnect_suspended_enter(opened) ==
  /\ pc # "done"
  /\ op # "disconnect"
  /\ ~HasDisconnected(log)
  /\ ~CloseAwaited(log)
  /\ IF currentController # Null /\ opened
     THEN /\ log' = Append(log, Req("close"))
          /\ UNCHANGED currentController
     ELSE /\ log' = Append(log, Disconnected)
          /\ currentController' = Null
  /\ UNCHANGED <<hid, input, handleNvStatusUpdate, has_changes_to_write, lastNvStatus,
                 op, pc, i, res, outcome, pre, sessions>>

\* device.close() resolves: this.currentController = null.
disconnect_suspended_resume ==
  /\ op # "disconnect"
  /\ CloseAwaited(log)
  /\ currentController' = Null
  /\ log' = log \o <<Resp("close", Void), Disconnected>>
  /\ UNCHANGED <<hid, input, handleNvStatusUpdate, has_changes_to_write, lastNvStatus,
                 op, pc, i, res, outcome, pre, sessions>>

\* The caller sets a controller, starts stick-center calibration runs and
\* disconnects while a run is suspended; the driver answers.
ConcurrentNext ==
  \/ \E c \in Controllers : setControllerInstance(c)
  \/ calibrateSticks_enter
  \/ \E r \in StickResult : calibrateSticksBegin_resume(r)
  \/ \E r \in StickResult : calibrateSticksSample_resume(r)
  \/ \E r \in StickResult : calibrateSticksEnd_resume(r)
  \/ calibrateSticks_sleep100
  \/ calibrateSticksSample_backoff
  \/ calibrateSticksEnd_backoff
  \/ driverThrows
  \/ \E opened \in BOOLEAN : disconnect_suspended_enter(opened)
  \/ disconnect_suspended_resume

ConcurrentInit == Constructed /\ sessions = NotFollowed /\ inputReports = << >>

ConcurrentSpec == ConcurrentInit /\ [][ConcurrentNext]_vars

----------------------------------------------------------------------------
(* C33: if disconnect() completes while a calibrateSticks run is suspended *)
(* (awaiting a device response or a timed wait), the run ends by raising   *)
(* an error to its caller: from then on it issues no begin, sample or end  *)
(* request to the closed controller, never reports progress 100, never     *)
(* returns success and never sets has_changes_to_write to true.            *)

\* The run is suspended, disconnect() has completed and no controller was
\* set since.
C33_Disconnected ==
  /\ InSticksRun
  /\ pc # "done"
  /\ HasDisconnected(log)
  /\ currentController = Null

C33_Step ==
  (C33_Disconnected /\ RunStep) =>
    /\ \A k \in 1..Len(Logged) :
         /\ Logged[k].kind # "req"
         /\ Logged[k] # Progress(100)
    /\ outcome'.kind # "returned"
    /\ pc' = "done" => outcome'.kind = "threw"
    /\ has_changes_to_write' = "true" => has_changes_to_write = "true"

C33_DisconnectEndsRun == [][C33_Step]_vars

----------------------------------------------------------------------------
(* One controller after another                                            *)
(*                                                                         *)
(* The caller sets controller c1 before it invokes anything, works with    *)
(* it, disconnects, and then sets the other controller c2.                 *)

setFirstController ==
  /\ op = "none"
  /\ setControllerInstance("c1")

setOtherController ==
  /\ op = "disconnect"
  /\ pc = "done"
  /\ outcome.kind = "returned"
  /\ currentController = Null
  /\ setControllerInstance("c2")

SuccessionNext ==
  \/ setFirstController
  \/ setOtherController
  \/ calibrateSticksEnd_enter
  \/ \E r \in StickResult : calibrateSticksEnd_resume(r)
  \/ calibrateSticksEnd_backoff
  \/ flash_enter
  \/ \E r \in FlashResult : flash_resume(r)
  \/ \E opened \in BOOLEAN : disconnect_enter(opened)
  \/ disconnect_resume
  \/ driverThrows
  \/ setInputHandler
  \/ oninputreport

SuccessionSpec == InputInit /\ [][SuccessionNext]_vars

----------------------------------------------------------------------------
(* C34: per-controller state does not leak across controllers: after       *)
(* disconnect() followed by setControllerInstance(other),                  *)
(* has_changes_to_write is true only if the controller now set has had an  *)
(* ok calibration end since its last flash, and the tracker snapshot, the  *)
(* touch points and the last battery label hold no value decoded from the  *)
(* previous controller's reports.                                          *)

\* The step that sets c2 after c1 was disconnected: c2 has had no
\* calibration end and none of its reports was decoded yet.
C34_Step ==
  (currentController = Null /\ currentController' = "c2") =>
    /\ has_changes_to_write' # "true"
    /\ button_states' = InitialButtonStates
    /\ touchPoints' = <<>>
    /\ lastBatteryText' = ""

C34_NoLeakAcrossControllers == [][C34_Step]_vars

============================================================================
